---- MODULE Spec2Model ----
(***************************************************************************)
(* gcsetup: a command-line tool that sequences calls to the gcloud and gh  *)
(* programs.  The model follows the root command (configuration through   *)
(* viper) and cmd/setup.go (the `setup` command and its five steps).       *)
(*                                                                         *)
(* Strings are TLA+ strings; fmt.Sprintf and "+" are concatenation (\o).   *)
(* The outcome of every external process (exec.Cmd.Run) is an input of the *)
(* action that spawns it.                                                  *)
(***************************************************************************)
EXTENDS Integers, Sequences, FiniteSets, TLC

VARIABLES
    command,    \* the subcommand run: "setup", "project" (create), "lb" (setup)
    flags,      \* pflag set: key -> [changed, val]   (command line)
    environ,    \* process environment: key -> [set, val]
    file,       \* .env.gcloud / --config file: key -> [set, val]
    dryRun,     \* --dry-run of `setup`
    projectDryRun,          \* --dry-run of `project create`
    projectNonInteractive,  \* --yes of `project create`
    lbDryRun,               \* --dry-run of `loadbalancer setup`
    lbNonInteractive,       \* --yes of `loadbalancer setup`
    pc,         \* position in the command's RunE function
    cfg,        \* the Config that loadConfig returned
    projectCfg, \* the ProjectConfig of runProjectCreate
    lbCfg,      \* the LoadBalancerConfig of runLoadBalancer
    stdinReads, \* lines read from standard input
    stepIdx,    \* number of steps of the loop that returned nil
    started,    \* step names printed by "Step i/n: <name>..."
    spawned,    \* external processes run, in order: [name, args, ok, step]
    printed,    \* "[dry-run] ..." lines written to stdout, in order
    complete,   \* "Setup Complete!" was printed
    err,        \* what the RunE function returned (Nil: nil)
    stderr,     \* what the process wrote to standard error, one write after the other
    exited,     \* the process has ended
    exitStatus, \* its exit status, once it has ended
    fs          \* the files `init` looks at: path -> [exists, data, mode]

vars == <<command, flags, environ, file, dryRun, projectDryRun, projectNonInteractive,
          lbDryRun, lbNonInteractive, pc, cfg, projectCfg, lbCfg, stdinReads,
          stepIdx, started, spawned, printed, complete, err, stderr, exited, exitStatus, fs>>

\* A Go nil error, and the error of a process that exits non-zero.
Nil == "<nil>"
ExitError == "exit status 1"

-----------------------------------------------------------------------------
(* Helpers on sequences and strings *)

Range(s) == {s[i] : i \in 1..Len(s)}

RECURSIVE Join(_, _)
Join(elems, sep) ==
    IF Len(elems) = 0 THEN ""
    ELSE IF Len(elems) = 1 THEN elems[1]
    ELSE elems[1] \o sep \o Join(Tail(elems), sep)

IsPrefix(s, t) == Len(s) <= Len(t) /\ SubSeq(t, 1, Len(s)) = s

Perms(S) == {p \in [1..Cardinality(S) -> S] : \A i, j \in 1..Cardinality(S) : p[i] = p[j] => i = j}

-----------------------------------------------------------------------------
(* Configuration: the root command *)

RequiredVars == <<
    "GCP_PROJECT_ID",
    "GCP_PROJECT_NUMBER",
    "GITHUB_ORGANIZATION",
    "GITHUB_REPOSITORY",
    "SERVICE_ACCOUNT_NAME",
    "ARTIFACT_REGISTRY_NAME",
    "ARTIFACT_REGISTRY_LOCATION",
    "CLOUD_RUN_SERVICE",
    "CLOUD_RUN_REGION" >>

Keys == Range(RequiredVars)

\* Mutant of GetString: the environment wins over a flag given on the command line.
GetStringEnvFirst(key) ==
    IF environ[key].set /\ environ[key].val # "" THEN environ[key].val
    ELSE IF flags[key].changed THEN flags[key].val
    ELSE IF file[key].set THEN file[key].val
    ELSE ""

\* viper.GetString(key) as init/initConfig set viper up: a flag bound with
\* BindPFlag wins when it was changed on the command line; then the environment
\* variable of the same name (AutomaticEnv; AllowEmptyEnv is not called, so an
\* empty variable counts as unset); then the config file; then the flag's
\* default, "".
GetString(key) ==
    IF flags[key].changed THEN flags[key].val
    ELSE IF environ[key].set /\ environ[key].val # "" THEN environ[key].val
    ELSE IF file[key].set THEN file[key].val
    ELSE ""

RECURSIVE MissingFrom(_)
MissingFrom(i) ==
    IF i > Len(RequiredVars) THEN << >>
    ELSE IF GetString(RequiredVars[i]) = ""
         THEN <<RequiredVars[i]>> \o MissingFrom(i + 1)
         ELSE MissingFrom(i + 1)

\* Mutant of ValidateConfig: only the first missing variable is reported.
ValidateConfigFirstOnly ==
    LET missing == MissingFrom(1)
    IN  IF Len(missing) > 0
        THEN "missing required variables:\n  - " \o missing[1]
        ELSE Nil

\* ValidateConfig: the error it returns, Nil when nothing is missing.
ValidateConfig ==
    LET missing == MissingFrom(1)
    IN  IF Len(missing) > 0
        THEN "missing required variables:\n  - " \o Join(missing, "\n  - ")
        ELSE Nil

-----------------------------------------------------------------------------
(* cmd/setup.go *)

EmptyConfig == [
    ProjectID |-> "", ProjectNumber |-> "", GitHubOrg |-> "", GitHubRepo |-> "",
    ServiceAccountName |-> "", ServiceAccountEmail |-> "",
    ArtifactRegistryName |-> "", ArtifactRegistryLocation |-> "",
    CloudRunService |-> "", CloudRunRegion |-> "",
    WorkloadIdentityProvider |-> "", ArtifactRegistryURL |-> "" ]

loadConfig ==
    LET projectID == GetString("GCP_PROJECT_ID")
        projectNumber == GetString("GCP_PROJECT_NUMBER")
        saName == GetString("SERVICE_ACCOUNT_NAME")
        arLocation == GetString("ARTIFACT_REGISTRY_LOCATION")
        arName == GetString("ARTIFACT_REGISTRY_NAME")
    IN  [ ProjectID |-> projectID,
          ProjectNumber |-> projectNumber,
          GitHubOrg |-> GetString("GITHUB_ORGANIZATION"),
          GitHubRepo |-> GetString("GITHUB_REPOSITORY"),
          ServiceAccountName |-> saName,
          ServiceAccountEmail |-> saName \o "@" \o projectID \o ".iam.gserviceaccount.com",
          ArtifactRegistryName |-> arName,
          ArtifactRegistryLocation |-> arLocation,
          CloudRunService |-> GetString("CLOUD_RUN_SERVICE"),
          CloudRunRegion |-> GetString("CLOUD_RUN_REGION"),
          WorkloadIdentityProvider |->
              "projects/" \o projectNumber
                  \o "/locations/global/workloadIdentityPools/github-pool/providers/github-provider",
          ArtifactRegistryURL |-> arLocation \o "-docker.pkg.dev/" \o projectID \o "/" \o arName ]

\* The part of the process state a step function acts on: the processes run and
\* the dry-run lines printed so far, the step on whose behalf they run, and
\* the error of the last call.
Exec(step) == [spawned |-> spawned, printed |-> printed, step |-> step, err |-> Nil]

\* Mutant of Run: a command that fails is run a second time.
RunWithRetry(st, name, args, ok) ==
    LET p == [name |-> name, args |-> args, ok |-> ok, step |-> st.step]
    IN  IF ok
        THEN [st EXCEPT !.spawned = Append(@, p), !.err = Nil]
        ELSE [st EXCEPT !.spawned = Append(Append(@, p), p), !.err = ExitError]

\* exec.Command(name, args...).Run() with outcome ok.
Run(st, name, args, ok) ==
    [st EXCEPT !.spawned = Append(@, [name |-> name, args |-> args, ok |-> ok, step |-> st.step]),
               !.err = IF ok THEN Nil ELSE ExitError]

\* Mutant of runCommandSilent: a dry run prints the program without its arguments.
runCommandSilentNameOnly(st, name, args, ok) ==
    IF dryRun
    THEN [st EXCEPT !.printed = Append(@, "  [dry-run] " \o name), !.err = Nil]
    ELSE Run(st, name, args, ok)

runCommandSilent(st, name, args, ok) ==
    IF dryRun
    THEN [st EXCEPT !.printed = Append(@, "  [dry-run] " \o name \o " " \o Join(args, " ")),
                    !.err = Nil]
    ELSE Run(st, name, args, ok)

apis == <<
    "cloudresourcemanager.googleapis.com",
    "iam.googleapis.com",
    "iamcredentials.googleapis.com",
    "artifactregistry.googleapis.com",
    "run.googleapis.com",
    "secretmanager.googleapis.com",
    "cloudbuild.googleapis.com" >>

RECURSIVE enableAPIsFrom(_, _, _, _)
enableAPIsFrom(c, st, i, oks) ==
    IF i > Len(apis) THEN [st EXCEPT !.err = Nil]
    ELSE LET r == runCommandSilent(st, "gcloud",
                      <<"services", "enable", apis[i], "--project=" \o c.ProjectID>>, oks[i])
         IN  IF r.err # Nil THEN r ELSE enableAPIsFrom(c, r, i + 1, oks)

enableAPIs(c, st, oks) == enableAPIsFrom(c, st, 1, oks)

roles == <<
    "roles/run.developer",
    "roles/artifactregistry.writer",
    "roles/secretmanager.secretAccessor",
    "roles/iam.serviceAccountUser",
    "roles/cloudbuild.builds.builder",
    "roles/logging.logWriter" >>

\* Mutant of grantRolesFrom: a failing grant does not stop the remaining grants.
RECURSIVE grantRolesKeepGoing(_, _, _, _)
grantRolesKeepGoing(c, st, i, oks) ==
    IF i > Len(roles) THEN st
    ELSE LET r == runCommandSilent(st, "gcloud",
                      <<"projects", "add-iam-policy-binding", c.ProjectID,
                        "--member=serviceAccount:" \o c.ServiceAccountEmail,
                        "--role=" \o roles[i],
                        "--condition=None">>, oks[1 + i])
         IN  grantRolesKeepGoing(c, [r EXCEPT !.err = IF st.err # Nil THEN st.err ELSE r.err],
                                 i + 1, oks)

RECURSIVE grantRolesFrom(_, _, _, _)
grantRolesFrom(c, st, i, oks) ==
    IF i > Len(roles) THEN [st EXCEPT !.err = Nil]
    ELSE LET r == runCommandSilent(st, "gcloud",
                      <<"projects", "add-iam-policy-binding", c.ProjectID,
                        "--member=serviceAccount:" \o c.ServiceAccountEmail,
                        "--role=" \o roles[i],
                        "--condition=None">>, oks[1 + i])
         IN  IF r.err # Nil THEN r ELSE grantRolesFrom(c, r, i + 1, oks)

\* Mutant of createServiceAccount: a failed create is returned, before any grant.
createServiceAccountStrict(c, st, oks) ==
    LET created == runCommandSilent(st, "gcloud",
                       <<"iam", "service-accounts", "create", c.ServiceAccountName,
                         "--project=" \o c.ProjectID,
                         "--display-name=" \o c.ServiceAccountName \o " Service Account",
                         "--description=Service account for GitHub Actions CI/CD">>, oks[1])
    IN  IF created.err # Nil THEN created ELSE grantRolesFrom(c, created, 1, oks)

\* oks[1] is the outcome of the create, oks[2..7] those of the six grants.
createServiceAccount(c, st, oks) ==
    LET created == runCommandSilent(st, "gcloud",
                       <<"iam", "service-accounts", "create", c.ServiceAccountName,
                         "--project=" \o c.ProjectID,
                         "--display-name=" \o c.ServiceAccountName \o " Service Account",
                         "--description=Service account for GitHub Actions CI/CD">>, oks[1])
    IN  grantRolesFrom(c, created, 1, oks)

setupWorkloadIdentity(c, st, oks) ==
    LET pool == runCommandSilent(st, "gcloud",
                    <<"iam", "workload-identity-pools", "create", "github-pool",
                      "--project=" \o c.ProjectID,
                      "--location=global",
                      "--display-name=GitHub Actions Pool">>, oks[1])
        provider == runCommandSilent(pool, "gcloud",
                    <<"iam", "workload-identity-pools", "providers", "create-oidc", "github-provider",
                      "--project=" \o c.ProjectID,
                      "--location=global",
                      "--workload-identity-pool=github-pool",
                      "--display-name=GitHub Provider",
                      "--attribute-mapping=google.subject=assertion.sub,attribute.actor=assertion.actor,attribute.repository=assertion.repository",
                      "--issuer-uri=https://token.actions.githubusercontent.com">>, oks[2])
        member == "principalSet://iam.googleapis.com/projects/" \o c.ProjectNumber
                      \o "/locations/global/workloadIdentityPools/github-pool/attribute.repository/"
                      \o c.GitHubOrg \o "/" \o c.GitHubRepo
    IN  runCommandSilent(provider, "gcloud",
            <<"iam", "service-accounts", "add-iam-policy-binding", c.ServiceAccountEmail,
              "--project=" \o c.ProjectID,
              "--role=roles/iam.workloadIdentityUser",
              "--member=" \o member>>, oks[3])

\* Mutant of createArtifactRegistry: the error of the create is returned.
createArtifactRegistryStrict(c, st, oks) ==
    runCommandSilent(st, "gcloud",
        <<"artifacts", "repositories", "create", c.ArtifactRegistryName,
          "--project=" \o c.ProjectID,
          "--location=" \o c.ArtifactRegistryLocation,
          "--repository-format=docker",
          "--description=Container registry for CI/CD">>, oks[1])

createArtifactRegistry(c, st, oks) ==
    LET r == runCommandSilent(st, "gcloud",
                 <<"artifacts", "repositories", "create", c.ArtifactRegistryName,
                   "--project=" \o c.ProjectID,
                   "--location=" \o c.ArtifactRegistryLocation,
                   "--repository-format=docker",
                   "--description=Container registry for CI/CD">>, oks[1])
    IN  [r EXCEPT !.err = Nil]

\* The map literals of configureGitHub.  Go ranges over a map in an unspecified
\* order: the order of each loop is an input of the step.
secrets(c) == [
    GCP_SERVICE_ACCOUNT |-> c.ServiceAccountEmail,
    GCP_WORKLOAD_IDENTITY_PROVIDER |-> c.WorkloadIdentityProvider ]

variables(c) == [
    CLOUD_RUN_SERVICE |-> c.CloudRunService,
    CLOUD_RUN_REGION |-> c.CloudRunRegion,
    ARTIFACT_REGISTRY_URL |-> c.ArtifactRegistryURL ]

RECURSIVE setSecretsFrom(_, _, _, _, _, _)
setSecretsFrom(c, st, repo, order, i, oks) ==
    IF i > Len(order) THEN [st EXCEPT !.err = Nil]
    ELSE LET name == order[i]
             value == secrets(c)[name]
         IN  IF dryRun
             THEN setSecretsFrom(c,
                      [st EXCEPT !.printed = Append(@, "    [dry-run] gh secret set " \o name
                                                           \o " --repo " \o repo)],
                      repo, order, i + 1, oks)
             ELSE LET r == Run(st, "gh", <<"secret", "set", name, "--repo", repo, "--body", value>>,
                               oks[i])
                  IN  IF r.err # Nil
                      THEN [r EXCEPT !.err = "failed to set secret " \o name \o ": " \o r.err]
                      ELSE setSecretsFrom(c, r, repo, order, i + 1, oks)

RECURSIVE setVariablesFrom(_, _, _, _, _, _)
setVariablesFrom(c, st, repo, order, i, oks) ==
    IF i > Len(order) THEN [st EXCEPT !.err = Nil]
    ELSE LET name == order[i]
             value == variables(c)[name]
         IN  IF dryRun
             THEN setVariablesFrom(c,
                      [st EXCEPT !.printed = Append(@, "    [dry-run] gh variable set " \o name
                                                           \o " --repo " \o repo)],
                      repo, order, i + 1, oks)
             ELSE LET r == Run(st, "gh", <<"variable", "set", name, "--repo", repo, "--body", value>>,
                               oks[i])
                  IN  IF r.err # Nil
                      THEN [r EXCEPT !.err = "failed to set variable " \o name \o ": " \o r.err]
                      ELSE setVariablesFrom(c, r, repo, order, i + 1, oks)

\* Mutant of configureGitHub: the variables are set before the secrets.
configureGitHubVariablesFirst(c, st, secretOrder, variableOrder, soks, voks) ==
    LET repo == c.GitHubOrg \o "/" \o c.GitHubRepo
        v == setVariablesFrom(c, st, repo, variableOrder, 1, voks)
    IN  IF v.err # Nil THEN v
        ELSE setSecretsFrom(c, v, repo, secretOrder, 1, soks)

\* secretOrder and variableOrder are the orders in which the two range loops
\* visit their maps; soks and voks the outcomes of the gh processes.
configureGitHub(c, st, secretOrder, variableOrder, soks, voks) ==
    LET repo == c.GitHubOrg \o "/" \o c.GitHubRepo
        s == setSecretsFrom(c, st, repo, secretOrder, 1, soks)
    IN  IF s.err # Nil THEN s
        ELSE setVariablesFrom(c, s, repo, variableOrder, 1, voks)

\* checkGcloud: found is whether exec.LookPath("gcloud") finds the program.
checkGcloud(st, found) ==
    IF ~found
    THEN [st EXCEPT !.err = "gcloud CLI not found. Install it: https://cloud.google.com/sdk/docs/install"]
    ELSE [st EXCEPT !.err = Nil]

\* checkGH: found is whether exec.LookPath("gh") finds the program, authed the
\* outcome of the `gh auth status` process, which is run whatever dryRun is.
checkGH(st, found, authed) ==
    IF ~found
    THEN [st EXCEPT !.err = "GitHub CLI (gh) not found. Install it: https://cli.github.com/"]
    ELSE LET r == Run(st, "gh", <<"auth", "status">>, authed)
         IN  IF r.err # Nil
             THEN [r EXCEPT !.err = "GitHub CLI not authenticated. Run: gh auth login"]
             ELSE r

\* Mutant of steps: the federation step comes before the service-account step.
stepsSwapped == <<
    [name |-> "Enabling APIs", fn |-> "enableAPIs"],
    [name |-> "Setting up Workload Identity Federation", fn |-> "setupWorkloadIdentity"],
    [name |-> "Creating Service Account", fn |-> "createServiceAccount"],
    [name |-> "Creating Artifact Registry", fn |-> "createArtifactRegistry"],
    [name |-> "Configuring GitHub Repository", fn |-> "configureGitHub"] >>

\* The steps slice of runSetup.
steps == <<
    [name |-> "Enabling APIs", fn |-> "enableAPIs"],
    [name |-> "Creating Service Account", fn |-> "createServiceAccount"],
    [name |-> "Setting up Workload Identity Federation", fn |-> "setupWorkloadIdentity"],
    [name |-> "Creating Artifact Registry", fn |-> "createArtifactRegistry"],
    [name |-> "Configuring GitHub Repository", fn |-> "configureGitHub"] >>

\* The zero values of ProjectConfig and LoadBalancerConfig.
EmptyProjectConfig == [
    ProjectID |-> "", ProjectNumber |-> "", ProjectName |-> "",
    ServiceAccountName |-> "", ServiceAccountEmail |-> "",
    ArtifactRegistryName |-> "", ArtifactRegistryLocation |-> "",
    WorkloadIdentityProvider |-> "", ArtifactRegistryURL |-> "" ]

EmptyLoadBalancerConfig == [
    ProjectID |-> "", ProjectNumber |-> "", LBName |-> "", Region |-> "",
    Network |-> "", Subnet |-> "", Services |-> << >>, HealthCheckPort |-> 0,
    UseSSL |-> FALSE, SSLCertificate |-> "" ]

-----------------------------------------------------------------------------
(* The inputs of a run *)

\* The values a configuration key is given: the README's example in the file,
\* and a different value in the environment and on the command line.
Example == [
    GCP_PROJECT_ID |-> "my-project",
    GCP_PROJECT_NUMBER |-> "123456789012",
    GITHUB_ORGANIZATION |-> "my-org",
    GITHUB_REPOSITORY |-> "my-repo",
    SERVICE_ACCOUNT_NAME |-> "github-actions",
    ARTIFACT_REGISTRY_NAME |-> "docker-registry",
    ARTIFACT_REGISTRY_LOCATION |-> "europe-west1",
    CLOUD_RUN_SERVICE |-> "my-api",
    CLOUD_RUN_REGION |-> "europe-west1" ]

FlagValue(key) == Example[key] \o "-flag"
EnvValue(key) == Example[key] \o "-env"
FileValue(key) == Example[key]

NoFlag == [changed |-> FALSE, val |-> ""]
Unset == [set |-> FALSE, val |-> ""]

FlagChoices(key) == {NoFlag, [changed |-> TRUE, val |-> ""], [changed |-> TRUE, val |-> FlagValue(key)]}
EnvChoices(key) == {Unset, [set |-> TRUE, val |-> ""], [set |-> TRUE, val |-> EnvValue(key)]}
FileChoices(key) == {Unset, [set |-> TRUE, val |-> ""], [set |-> TRUE, val |-> FileValue(key)]}

\* How one key is given: from the file alone, in the environment over the file,
\* on the command line over both; or so that it resolves to "": given nowhere,
\* empty in the environment and the file, or an empty flag over a file value.
Given == {"file", "env", "flag"}
Withheld == {"absent", "empty", "empty-flag"}

SourcesOf(key, how) ==
    [ flag |-> IF how = "flag" THEN [changed |-> TRUE, val |-> FlagValue(key)]
               ELSE IF how = "empty-flag" THEN [changed |-> TRUE, val |-> ""]
               ELSE NoFlag,
      env  |-> IF how \in {"env", "flag"} THEN [set |-> TRUE, val |-> EnvValue(key)]
               ELSE IF how = "empty" THEN [set |-> TRUE, val |-> ""]
               ELSE Unset,
      file |-> IF how \in {"file", "env", "flag", "empty-flag"} THEN [set |-> TRUE, val |-> FileValue(key)]
               ELSE IF how = "empty" THEN [set |-> TRUE, val |-> ""]
               ELSE Unset ]

\* The current directory of `init` and the three paths it builds from it.
Cwd == "/repo"
WorkflowPath == Cwd \o "/.github/workflows/gcloud-deploy.yml"
EnvPath == Cwd \o "/.env.gcloud"
GitignorePath == Cwd \o "/.gitignore"
Paths == {WorkflowPath, EnvPath, GitignorePath}

\* A path with no file, and a regular file with permission bits 0644 (rw),
\* 0444 (r: cannot be opened for writing) or 0200 (w: cannot be read).
Absent == [exists |-> FALSE, data |-> "", mode |-> "rw"]
File(data, mode) == [exists |-> TRUE, data |-> data, mode |-> mode]

NoFiles == [p \in Paths |-> Absent]

\* The state of the process when the command's RunE function is entered, the
\* files being files.
EnteredIn(at, files) ==
    /\ fs = files
    /\ pc = at
    /\ cfg = EmptyConfig
    /\ projectCfg = EmptyProjectConfig
    /\ lbCfg = EmptyLoadBalancerConfig
    /\ stdinReads = 0
    /\ stepIdx = 0
    /\ started = << >>
    /\ spawned = << >>
    /\ printed = << >>
    /\ complete = FALSE
    /\ err = Nil
    /\ stderr = << >>
    /\ exited = FALSE
    /\ exitStatus = 0

Entered(at) == EnteredIn(at, NoFiles)

\* At most MaxMissing keys are withheld, all in one way; the others are given,
\* all in one way.
MaxMissing == 2

Init ==
    /\ \E missing \in {m \in SUBSET Keys : Cardinality(m) <= MaxMissing},
          given \in Given, withheld \in Withheld :
          LET src == [x \in Keys |-> SourcesOf(x, IF x \in missing THEN withheld ELSE given)]
          IN  /\ flags = [x \in Keys |-> src[x].flag]
              /\ environ = [x \in Keys |-> src[x].env]
              /\ file = [x \in Keys |-> src[x].file]
    /\ command = "setup"
    /\ dryRun \in BOOLEAN
    /\ projectDryRun = FALSE /\ projectNonInteractive = FALSE
    /\ lbDryRun = FALSE /\ lbNonInteractive = FALSE
    /\ Entered("ValidateConfig")

\* One key takes every combination of flag, environment and file; the others
\* come from the file.
InitConfig ==
    /\ \E k \in Keys :
          \E f \in FlagChoices(k), e \in EnvChoices(k), c \in FileChoices(k) :
             /\ flags = [x \in Keys |-> IF x = k THEN f ELSE NoFlag]
             /\ environ = [x \in Keys |-> IF x = k THEN e ELSE Unset]
             /\ file = [x \in Keys |-> IF x = k THEN c ELSE [set |-> TRUE, val |-> FileValue(x)]]
    /\ command = "setup"
    /\ dryRun \in BOOLEAN
    /\ projectDryRun = FALSE /\ projectNonInteractive = FALSE
    /\ lbDryRun = FALSE /\ lbNonInteractive = FALSE
    /\ Entered("ValidateConfig")

-----------------------------------------------------------------------------
(* runSetup *)

inputs == <<command, flags, environ, file, dryRun, projectDryRun, projectNonInteractive,
            lbDryRun, lbNonInteractive>>

\* What runSetup never touches.
notSetup == <<projectCfg, lbCfg, stdinReads, stderr, exited, exitStatus, fs>>

\* Mutant of PreCheck: the error of a pre-check is recorded and the run goes on.
PreCheckGoingOn(r, next) ==
    /\ spawned' = r.spawned
    /\ printed' = r.printed
    /\ err' = IF r.err # Nil THEN r.err ELSE err
    /\ pc' = next
    /\ UNCHANGED <<inputs, notSetup, cfg, stepIdx, started, complete>>

\* A pre-check of runSetup returned r: its error ends the run, nil goes on.
PreCheck(r, next) ==
    /\ spawned' = r.spawned
    /\ printed' = r.printed
    /\ IF r.err # Nil
       THEN err' = r.err /\ pc' = "done"
       ELSE err' = err /\ pc' = next
    /\ UNCHANGED <<inputs, notSetup, cfg, stepIdx, started, complete>>

RunValidateConfig ==
    /\ pc = "ValidateConfig"
    /\ PreCheck([Exec(0) EXCEPT !.err = ValidateConfig], "checkGcloud")

RunCheckGcloud ==
    /\ pc = "checkGcloud"
    /\ \E found \in BOOLEAN : PreCheck(checkGcloud(Exec(0), found), "checkGH")

RunCheckGH ==
    /\ pc = "checkGH"
    /\ \E found \in BOOLEAN, authed \in BOOLEAN :
          PreCheck(checkGH(Exec(0), found, authed), "loadConfig")

RunLoadConfig ==
    /\ pc = "loadConfig"
    /\ cfg' = loadConfig
    /\ pc' = "steps"
    /\ UNCHANGED <<inputs, notSetup, stepIdx, started, spawned, printed, complete, err>>

\* Mutant of Iteration: the loop records a step's error and goes on to the next step.
IterationKeepGoing(r) ==
    /\ started' = Append(started, steps[stepIdx + 1].name)
    /\ spawned' = r.spawned
    /\ printed' = r.printed
    /\ err' = IF r.err # Nil THEN steps[stepIdx + 1].name \o " failed: " \o r.err ELSE err
    /\ stepIdx' = stepIdx + 1
    /\ UNCHANGED <<inputs, notSetup, cfg, complete, pc>>

\* One iteration of the loop over steps: the step's name is printed, its
\* function is called with cfg and returned r.
Iteration(r) ==
    /\ started' = Append(started, steps[stepIdx + 1].name)
    /\ spawned' = r.spawned
    /\ printed' = r.printed
    /\ IF r.err # Nil
       THEN /\ err' = steps[stepIdx + 1].name \o " failed: " \o r.err
            /\ pc' = "done"
            /\ stepIdx' = stepIdx
       ELSE /\ stepIdx' = stepIdx + 1
            /\ UNCHANGED <<err, pc>>
    /\ UNCHANGED <<inputs, notSetup, cfg, complete>>

AtStep(fn) == pc = "steps" /\ stepIdx < Len(steps) /\ steps[stepIdx + 1].fn = fn

StepEnableAPIs ==
    /\ AtStep("enableAPIs")
    /\ \E oks \in [1..Len(apis) -> BOOLEAN] : Iteration(enableAPIs(cfg, Exec(stepIdx + 1), oks))

StepCreateServiceAccount ==
    /\ AtStep("createServiceAccount")
    /\ \E oks \in [1..(1 + Len(roles)) -> BOOLEAN] :
          Iteration(createServiceAccount(cfg, Exec(stepIdx + 1), oks))

StepSetupWorkloadIdentity ==
    /\ AtStep("setupWorkloadIdentity")
    /\ \E oks \in [1..3 -> BOOLEAN] :
          Iteration(setupWorkloadIdentity(cfg, Exec(stepIdx + 1), oks))

StepCreateArtifactRegistry ==
    /\ AtStep("createArtifactRegistry")
    /\ \E oks \in [1..1 -> BOOLEAN] :
          Iteration(createArtifactRegistry(cfg, Exec(stepIdx + 1), oks))

StepConfigureGitHub ==
    /\ AtStep("configureGitHub")
    /\ \E secretOrder \in Perms(DOMAIN secrets(cfg)), variableOrder \in Perms(DOMAIN variables(cfg)) :
          \E soks \in [1..Len(secretOrder) -> BOOLEAN], voks \in [1..Len(variableOrder) -> BOOLEAN] :
             Iteration(configureGitHub(cfg, Exec(stepIdx + 1), secretOrder, variableOrder, soks, voks))

\* After the loop: the banner, and return nil.
SetupComplete ==
    /\ pc = "steps"
    /\ stepIdx = Len(steps)
    /\ complete' = TRUE
    /\ err' = Nil
    /\ pc' = "done"
    /\ UNCHANGED <<inputs, notSetup, cfg, stepIdx, started, spawned, printed>>

\* The usage text cobra renders for a command, standing for the text.
UsageString(cmd) == "<usage of gcsetup " \o cmd \o ">"

\* What rootCmd.Execute() and then Execute write to standard error when the
\* command's RunE function returned e: no command sets SilenceErrors or
\* SilenceUsage, so cobra prints "Error: " and the error, then the usage of
\* the command, before Execute prints the error itself.
ErrorOutput(e) == <<"Error: " \o e, UsageString(command), e>>

\* Mutant of Execute: the error is written but the process ends with status 0.
ExecuteExitZero ==
    /\ pc = "done"
    /\ ~exited
    /\ stderr' = IF err # Nil THEN stderr \o ErrorOutput(err) ELSE stderr
    /\ exitStatus' = 0
    /\ exited' = TRUE
    /\ UNCHANGED <<inputs, pc, cfg, projectCfg, lbCfg, stdinReads, stepIdx, started, spawned,
                   printed, complete, err, fs>>

\* Execute, from the return of the command's RunE function on: an error is
\* written to standard error, by cobra and by Execute, and the process exits
\* with status 1; otherwise Execute returns and the process ends with
\* status 0.
Execute ==
    /\ pc = "done"
    /\ ~exited
    /\ IF err # Nil
       THEN stderr' = stderr \o ErrorOutput(err) /\ exitStatus' = 1
       ELSE stderr' = stderr /\ exitStatus' = 0
    /\ exited' = TRUE
    /\ UNCHANGED <<inputs, pc, cfg, projectCfg, lbCfg, stdinReads, stepIdx, started, spawned,
                   printed, complete, err, fs>>

Next ==
    \/ RunValidateConfig
    \/ RunCheckGcloud
    \/ RunCheckGH
    \/ RunLoadConfig
    \/ StepEnableAPIs
    \/ StepCreateServiceAccount
    \/ StepSetupWorkloadIdentity
    \/ StepCreateArtifactRegistry
    \/ StepConfigureGitHub
    \/ SetupComplete
    \/ Execute

Spec == Init /\ [][Next]_vars

\* The run up to the Config that loadConfig returns, over every way to give a key.
NextConfig ==
    \/ RunValidateConfig
    \/ RunCheckGcloud
    \/ RunCheckGH
    \/ RunLoadConfig
    \/ Execute

SpecConfig == InitConfig /\ [][NextConfig]_vars

-----------------------------------------------------------------------------
(* Reading answers and formatting numbers *)

\* The white space of unicode.IsSpace that a string of this module can hold:
\* the characters up to U+00FF. VerticalTab is U+000B, NextLine U+0085 and
\* NoBreakSpace U+00A0, each written as the character itself.
VerticalTab == ""
NextLine == ""
NoBreakSpace == " "

IsSpace(ch) == ch \in {" ", "\n", "\t", "\r", "\f", VerticalTab, NextLine, NoBreakSpace}

RECURSIVE TrimLeft(_)
TrimLeft(s) ==
    IF Len(s) > 0 /\ IsSpace(SubSeq(s, 1, 1)) THEN TrimLeft(SubSeq(s, 2, Len(s))) ELSE s

RECURSIVE TrimRight(_)
TrimRight(s) ==
    IF Len(s) > 0 /\ IsSpace(SubSeq(s, Len(s), Len(s))) THEN TrimRight(SubSeq(s, 1, Len(s) - 1)) ELSE s

\* strings.TrimSpace
TrimSpace(s) == TrimRight(TrimLeft(s))

Digits == <<"0", "1", "2", "3", "4", "5", "6", "7", "8", "9">>

\* fmt.Sprintf("%d", n)
RECURSIVE Itoa(_)
Itoa(n) ==
    IF n < 0 THEN "-" \o Itoa(0 - n)
    ELSE IF n < 10 THEN Digits[n + 1]
    ELSE Itoa(n \div 10) \o Digits[(n % 10) + 1]

-----------------------------------------------------------------------------
(* project create: cmd/setup.go, second file *)

\* promptProject(label, defaultVal) when the user types line: the value it
\* returns and the number of lines it read from standard input.
promptProject(defaultVal, line) ==
    IF projectNonInteractive THEN [val |-> defaultVal, reads |-> 0]
    ELSE LET input == TrimSpace(line)
         IN  [val |-> IF input = "" THEN defaultVal ELSE input, reads |-> 1]

\* randomSuffix: n is the value of rand.Intn(100000).
randomSuffix(n) == Itoa(n)

\* promptConfirm is not among the sources: it asks the question on standard
\* input and returns whether the user agreed.
promptConfirm(agreed) == [val |-> agreed, reads |-> 1]

\* interactiveProjectConfig: lines are the five lines the user types, n the
\* random number.
interactiveProjectConfig(c, lines, n) ==
    LET name == promptProject("my-project", lines[1])
        id == promptProject("my-project-" \o randomSuffix(n), lines[2])
        sa == promptProject("github-actions", lines[3])
        ar == promptProject("docker", lines[4])
        loc == promptProject("us-central1", lines[5])
    IN  [ cfg |-> [c EXCEPT !.ProjectName = name.val,
                            !.ProjectID = id.val,
                            !.ServiceAccountName = sa.val,
                            !.ArtifactRegistryName = ar.val,
                            !.ArtifactRegistryLocation = loc.val],
          reads |-> name.reads + id.reads + sa.reads + ar.reads + loc.reads ]

\* The else branch of runProjectCreate (--yes).
defaultProjectConfig(c, lines) ==
    LET name == promptProject("my-project", lines[1])
        id == promptProject("my-project", lines[2])
        sa == promptProject("github-actions", lines[3])
        ar == promptProject("docker", lines[4])
        loc == promptProject("us-central1", lines[5])
    IN  [ cfg |-> [c EXCEPT !.ProjectName = name.val,
                            !.ProjectID = id.val,
                            !.ServiceAccountName = sa.val,
                            !.ArtifactRegistryName = ar.val,
                            !.ArtifactRegistryLocation = loc.val],
          reads |-> name.reads + id.reads + sa.reads + ar.reads + loc.reads ]

Println(st, line) == [st EXCEPT !.printed = Append(@, line)]

\* The check mark and the warning sign that begin the reports of the steps
\* (U+2713 and U+26A0), written by their code points.
CheckMark == "<U+2713>"
WarningSign == "<U+26A0>"

createGCPProject(c, st, oks) ==
    IF projectDryRun
    THEN [Println(st, "  [dry-run] gcloud projects create " \o c.ProjectID
                        \o " --name=\"" \o c.ProjectName \o "\"") EXCEPT !.err = Nil]
    ELSE LET r == Run(st, "gcloud", <<"projects", "create", c.ProjectID, "--name=" \o c.ProjectName>>,
                      oks[1])
         IN  IF r.err # Nil THEN [r EXCEPT !.err = "failed to create project: " \o r.err] ELSE r

projectAPIs == <<
    "cloudresourcemanager.googleapis.com",
    "serviceusage.googleapis.com",
    "iam.googleapis.com",
    "artifactregistry.googleapis.com",
    "iamcredentials.googleapis.com",
    "cloudkms.googleapis.com" >>

RECURSIVE printProjectAPIsFrom(_, _, _)
printProjectAPIsFrom(c, st, i) ==
    IF i > Len(projectAPIs) THEN [st EXCEPT !.err = Nil]
    ELSE printProjectAPIsFrom(c,
             Println(st, "  [dry-run] gcloud services enable " \o projectAPIs[i]
                           \o " --project=" \o c.ProjectID),
             i + 1)

RECURSIVE enableProjectAPIsFrom(_, _, _, _)
enableProjectAPIsFrom(c, st, i, oks) ==
    IF i > Len(projectAPIs) THEN [st EXCEPT !.err = Nil]
    ELSE LET r == Run(st, "gcloud",
                      <<"services", "enable", projectAPIs[i], "--project=" \o c.ProjectID>>, oks[i])
         IN  IF r.err # Nil
             THEN [r EXCEPT !.err = "failed to enable API " \o projectAPIs[i] \o ": " \o r.err]
             ELSE enableProjectAPIsFrom(c, r, i + 1, oks)

enableProjectAPIs(c, st, oks) ==
    IF projectDryRun THEN printProjectAPIsFrom(c, st, 1)
    ELSE enableProjectAPIsFrom(c, st, 1, oks)

\* The assignment to cfg.ServiceAccountEmail changes the callee's copy only.
createProjectServiceAccount(c, st, oks) ==
    IF projectDryRun
    THEN [Println(st, "  [dry-run] gcloud iam service-accounts create " \o c.ServiceAccountName
                        \o " --project=" \o c.ProjectID) EXCEPT !.err = Nil]
    ELSE LET r == Run(st, "gcloud",
                      <<"iam", "service-accounts", "create", c.ServiceAccountName,
                        "--project=" \o c.ProjectID>>, oks[1])
         IN  IF r.err # Nil THEN [r EXCEPT !.err = "failed to create service account: " \o r.err]
             ELSE r

setupProjectWorkloadIdentity(c, st, oks) ==
    IF projectDryRun
    THEN [Println(Println(Println(st,
              "  [dry-run] Setting up Workload Identity Federation"),
              "  [dry-run] gcloud iam workload-identity-pools create github-pool --project="
                  \o c.ProjectID \o " --location=global"),
              "  [dry-run] gcloud iam workload-identity-pools providers create-oidc github-provider ...")
          EXCEPT !.err = Nil]
    ELSE LET pool == Run(st, "gcloud",
                         <<"iam", "workload-identity-pools", "create", "github-pool",
                           "--project=" \o c.ProjectID, "--location=global",
                           "--display-name=GitHub">>, oks[1])
         IN  IF pool.err # Nil
             THEN [pool EXCEPT !.err = "failed to create workload identity pool: " \o pool.err]
             ELSE LET provider == Run(pool, "gcloud",
                          <<"iam", "workload-identity-pools", "providers", "create-oidc",
                            "github-provider",
                            "--project=" \o c.ProjectID,
                            "--location=global",
                            "--workload-identity-pool=github-pool",
                            "--display-name=GitHub",
                            "--attribute-mapping=google.subject=assertion.sub,assertion.aud=assertion.aud",
                            "--issuer-uri=https://token.actions.githubusercontent.com">>, oks[2])
                  IN  IF provider.err # Nil
                      THEN [provider EXCEPT !.err = "failed to create OIDC provider: " \o provider.err]
                      ELSE provider

\* The assignment to cfg.ArtifactRegistryURL changes the callee's copy only.
createProjectArtifactRegistry(c, st, oks) ==
    IF projectDryRun
    THEN [Println(st, "  [dry-run] gcloud artifacts repositories create " \o c.ArtifactRegistryName
                        \o " --repository-format=docker --location=" \o c.ArtifactRegistryLocation
                        \o " --project=" \o c.ProjectID) EXCEPT !.err = Nil]
    ELSE LET r == Run(st, "gcloud",
                      <<"artifacts", "repositories", "create", c.ArtifactRegistryName,
                        "--repository-format=docker",
                        "--location=" \o c.ArtifactRegistryLocation,
                        "--project=" \o c.ProjectID>>, oks[1])
         IN  IF r.err # Nil THEN [r EXCEPT !.err = "failed to create artifact registry: " \o r.err]
             ELSE r

\* The steps slice of runProjectCreate.
projectSteps == <<
    [name |-> "Creating GCP Project", fn |-> "createGCPProject"],
    [name |-> "Enabling APIs", fn |-> "enableProjectAPIs"],
    [name |-> "Creating Service Account", fn |-> "createProjectServiceAccount"],
    [name |-> "Setting up Workload Identity Federation", fn |-> "setupProjectWorkloadIdentity"],
    [name |-> "Creating Artifact Registry", fn |-> "createProjectArtifactRegistry"] >>

\* What the user may type at the five prompts of project create, and the values
\* rand.Intn(100000) takes.
ProjectLines ==
    {"\n", "Acme Shop\n"} \X {"\n", "  acme-shop \n"} \X {"\n", "deployer\n"}
        \X {"\n", "images\n"} \X {"\n", "europe-west1\n"}

RandomNumbers == {7, 99999}

InitProject ==
    /\ command = "project"
    /\ flags = [x \in Keys |-> NoFlag]
    /\ environ = [x \in Keys |-> Unset]
    /\ file = [x \in Keys |-> Unset]
    /\ dryRun = FALSE
    /\ projectDryRun \in BOOLEAN /\ projectNonInteractive \in BOOLEAN
    /\ lbDryRun = FALSE /\ lbNonInteractive = FALSE
    /\ Entered("project:checkGcloud")

\* What runProjectCreate never touches.
notProject == <<cfg, lbCfg, stderr, exited, exitStatus, fs>>

ProjectCheckGcloud ==
    /\ pc = "project:checkGcloud"
    /\ \E found \in BOOLEAN :
          LET r == checkGcloud(Exec(0), found)
          IN  IF r.err # Nil
              THEN err' = r.err /\ pc' = "done"
              ELSE err' = err /\ pc' = "project:configure"
    /\ UNCHANGED <<inputs, notProject, projectCfg, stdinReads, stepIdx, started, spawned,
                   printed, complete>>

ProjectConfigure ==
    /\ pc = "project:configure"
    /\ \E lines \in ProjectLines, n \in RandomNumbers :
          LET r == IF ~projectNonInteractive
                   THEN interactiveProjectConfig(EmptyProjectConfig, lines, n)
                   ELSE defaultProjectConfig(EmptyProjectConfig, lines)
          IN  /\ projectCfg' = r.cfg
              /\ stdinReads' = stdinReads + r.reads
    /\ pc' = "project:confirm"
    /\ UNCHANGED <<inputs, notProject, stepIdx, started, spawned, printed, complete, err>>

ProjectConfirm ==
    /\ pc = "project:confirm"
    /\ IF ~projectNonInteractive
       THEN \E agreed \in BOOLEAN :
               LET r == promptConfirm(agreed)
               IN  /\ stdinReads' = stdinReads + r.reads
                   /\ IF ~r.val
                      THEN err' = Nil /\ pc' = "done"
                      ELSE err' = err /\ pc' = "project:steps"
       ELSE /\ pc' = "project:steps"
            /\ UNCHANGED <<stdinReads, err>>
    /\ UNCHANGED <<inputs, notProject, projectCfg, stepIdx, started, spawned, printed, complete>>

\* One iteration of the loop over the steps of runProjectCreate.
ProjectIteration(r) ==
    /\ started' = Append(started, projectSteps[stepIdx + 1].name)
    /\ spawned' = r.spawned
    /\ printed' = r.printed
    /\ IF r.err # Nil
       THEN /\ err' = projectSteps[stepIdx + 1].name \o " failed: " \o r.err
            /\ pc' = "done"
            /\ stepIdx' = stepIdx
       ELSE /\ stepIdx' = stepIdx + 1
            /\ UNCHANGED <<err, pc>>
    /\ UNCHANGED <<inputs, notProject, projectCfg, stdinReads, complete>>

AtProjectStep(fn) ==
    pc = "project:steps" /\ stepIdx < Len(projectSteps) /\ projectSteps[stepIdx + 1].fn = fn

StepCreateGCPProject ==
    /\ AtProjectStep("createGCPProject")
    /\ \E oks \in [1..1 -> BOOLEAN] :
          ProjectIteration(createGCPProject(projectCfg, Exec(stepIdx + 1), oks))

StepEnableProjectAPIs ==
    /\ AtProjectStep("enableProjectAPIs")
    /\ \E oks \in [1..Len(projectAPIs) -> BOOLEAN] :
          ProjectIteration(enableProjectAPIs(projectCfg, Exec(stepIdx + 1), oks))

StepCreateProjectServiceAccount ==
    /\ AtProjectStep("createProjectServiceAccount")
    /\ \E oks \in [1..1 -> BOOLEAN] :
          ProjectIteration(createProjectServiceAccount(projectCfg, Exec(stepIdx + 1), oks))

StepSetupProjectWorkloadIdentity ==
    /\ AtProjectStep("setupProjectWorkloadIdentity")
    /\ \E oks \in [1..2 -> BOOLEAN] :
          ProjectIteration(setupProjectWorkloadIdentity(projectCfg, Exec(stepIdx + 1), oks))

StepCreateProjectArtifactRegistry ==
    /\ AtProjectStep("createProjectArtifactRegistry")
    /\ \E oks \in [1..1 -> BOOLEAN] :
          ProjectIteration(createProjectArtifactRegistry(projectCfg, Exec(stepIdx + 1), oks))

\* After the loop: "Project Creation Complete!", and return nil.
ProjectComplete ==
    /\ pc = "project:steps"
    /\ stepIdx = Len(projectSteps)
    /\ complete' = TRUE
    /\ err' = Nil
    /\ pc' = "done"
    /\ UNCHANGED <<inputs, notProject, projectCfg, stdinReads, stepIdx, started, spawned, printed>>

NextProject ==
    \/ ProjectCheckGcloud
    \/ ProjectConfigure
    \/ ProjectConfirm
    \/ StepCreateGCPProject
    \/ StepEnableProjectAPIs
    \/ StepCreateProjectServiceAccount
    \/ StepSetupProjectWorkloadIdentity
    \/ StepCreateProjectArtifactRegistry
    \/ ProjectComplete
    \/ Execute

SpecProject == InitProject /\ [][NextProject]_vars

-----------------------------------------------------------------------------
(* loadbalancer setup: reading the configuration *)

\* The letters with a lower case: A-Z and the capitals of Latin-1
\* (U+00C0-U+00D6, U+00D8-U+00DE), each with its lower-case letter.
UpperCase == <<"A", "B", "C", "D", "E", "F", "G", "H", "I", "J", "K", "L", "M",
               "N", "O", "P", "Q", "R", "S", "T", "U", "V", "W", "X", "Y", "Z",
               "À", "Á", "Â", "Ã", "Ä", "Å", "Æ", "Ç", "È", "É", "Ê", "Ë", "Ì",
               "Í", "Î", "Ï", "Ð", "Ñ", "Ò", "Ó", "Ô", "Õ", "Ö", "Ø", "Ù", "Ú",
               "Û", "Ü", "Ý", "Þ">>
LowerCase == <<"a", "b", "c", "d", "e", "f", "g", "h", "i", "j", "k", "l", "m",
               "n", "o", "p", "q", "r", "s", "t", "u", "v", "w", "x", "y", "z",
               "à", "á", "â", "ã", "ä", "å", "æ", "ç", "è", "é", "ê", "ë", "ì",
               "í", "î", "ï", "ð", "ñ", "ò", "ó", "ô", "õ", "ö", "ø", "ù", "ú",
               "û", "ü", "ý", "þ">>

\* strings.ToLower
RECURSIVE ToLower(_)
ToLower(s) ==
    IF s = "" THEN ""
    ELSE LET ch == SubSeq(s, 1, 1)
             lower == IF \E i \in 1..Len(UpperCase) : UpperCase[i] = ch
                      THEN LowerCase[CHOOSE i \in 1..Len(UpperCase) : UpperCase[i] = ch]
                      ELSE ch
         IN  lower \o ToLower(SubSeq(s, 2, Len(s)))

IsDigit(ch) == \E i \in 1..Len(Digits) : Digits[i] = ch

DigitValue(ch) == (CHOOSE i \in 1..Len(Digits) : Digits[i] = ch) - 1

\* The decimal digits s begins with, read as a number after acc.
RECURSIVE ScanDigits(_, _)
ScanDigits(s, acc) ==
    IF Len(s) > 0 /\ IsDigit(SubSeq(s, 1, 1))
    THEN ScanDigits(SubSeq(s, 2, Len(s)), acc * 10 + DigitValue(SubSeq(s, 1, 1)))
    ELSE acc

\* The token of a %d verb: the digits s begins with (fmt's digits of %d are
\* "0123456789"; an underscore ends the token like any other character).
RECURSIVE ScanNumber(_)
ScanNumber(s) ==
    IF Len(s) > 0 /\ IsDigit(SubSeq(s, 1, 1))
    THEN SubSeq(s, 1, 1) \o ScanNumber(SubSeq(s, 2, Len(s)))
    ELSE ""

RECURSIVE StripZeros(_)
StripZeros(s) ==
    IF Len(s) > 1 /\ SubSeq(s, 1, 1) = "0" THEN StripZeros(SubSeq(s, 2, Len(s))) ELSE s

\* a <= b for two strings of digits of the same length.
RECURSIVE DigitsLeq(_, _)
DigitsLeq(a, b) ==
    IF a = "" THEN TRUE
    ELSE LET x == DigitValue(SubSeq(a, 1, 1))
             y == DigitValue(SubSeq(b, 1, 1))
         IN  IF x # y THEN x < y
             ELSE DigitsLeq(SubSeq(a, 2, Len(a)), SubSeq(b, 2, Len(b)))

\* strconv.ParseInt(tok, 10, 64) accepts the digits: the number is in the
\* range of an int, -9223372036854775808 to 9223372036854775807.
FitsInt64(digits, negative) ==
    LET sig == StripZeros(digits)
        most == IF negative THEN "9223372036854775808" ELSE "9223372036854775807"
    IN  \/ Len(sig) < Len(most)
        \/ Len(sig) = Len(most) /\ DigitsLeq(sig, most)

\* fmt.Sscanf(input, "%d", &n) on a trimmed input: an optional sign and the
\* token that follows it; what comes after the token is left unread. It
\* returns an error and stores nothing when the token is empty or is out of
\* range.
Sscanf(input) ==
    LET signed == Len(input) > 0 /\ SubSeq(input, 1, 1) \in {"+", "-"}
        negative == signed /\ SubSeq(input, 1, 1) = "-"
        rest == IF signed THEN SubSeq(input, 2, Len(input)) ELSE input
        tok == ScanNumber(rest)
    IN  IF /\ tok # ""
           /\ FitsInt64(tok, negative)
        THEN LET n == ScanDigits(StripZeros(tok), 0)
             IN  [ok |-> TRUE, val |-> IF negative THEN 0 - n ELSE n]
        ELSE [ok |-> FALSE, val |-> 0]

\* reader.ReadString, TrimSpace and Sscanf as interactiveLBConfig combines them
\* for a number with a default.
readNumber(line, defaultVal) ==
    LET input == TrimSpace(line)
        scanned == Sscanf(input)
    IN  IF input = "" THEN defaultVal
        ELSE IF ~scanned.ok THEN defaultVal
        ELSE scanned.val

\* promptLB(label, defaultVal) when the user types line.
promptLB(defaultVal, line) ==
    IF lbNonInteractive THEN [val |-> defaultVal, reads |-> 0]
    ELSE LET input == TrimSpace(line)
         IN  [val |-> IF input = "" THEN defaultVal ELSE input, reads |-> 1]

\* The body of the loop of interactiveLBConfig for service i, the user typing
\* the four lines of a.
interactiveService(i, a) ==
    LET name == promptLB("service-" \o Itoa(i), a.name)
        protocol == promptLB("HTTP", a.protocol)
        port == readNumber(a.port, 8080)
        path == promptLB("/" \o name.val \o "/*", a.path)
    IN  [ service |-> [Name |-> name.val, Protocol |-> protocol.val, Port |-> port,
                       Path |-> path.val, HealthCheck |-> name.val \o "-hc"],
          reads |-> name.reads + protocol.reads + 1 + path.reads ]

RECURSIVE SumReads(_, _)
SumReads(rs, i) == IF i > Len(rs) THEN 0 ELSE rs[i].reads + SumReads(rs, i + 1)

\* The number of services interactiveLBConfig asks about when the user types line.
numServices(line) == readNumber(line, 1)

\* interactiveLBConfig: a holds the lines the user types, a.services the four
\* lines for every service asked about. Standard input is a terminal: every
\* read takes one line.
interactiveLBConfig(c, a) ==
    LET lbName == promptLB("gcloud-lb", a.name)
        network == promptLB("default", a.network)
        subnet == promptLB("", a.subnet)
        port == readNumber(a.port, 8080)
        wantSSL == ToLower(TrimSpace(a.ssl)) = "y"
        cert == promptLB("", a.cert)
        n == numServices(a.num)
        svcs == [i \in 1..n |-> interactiveService(i, a.services[i])]
    IN  [ cfg |-> [c EXCEPT !.LBName = lbName.val,
                            !.Network = network.val,
                            !.Subnet = subnet.val,
                            !.HealthCheckPort = port,
                            !.UseSSL = wantSSL /\ cert.val # "",
                            !.SSLCertificate = IF wantSSL THEN cert.val ELSE c.SSLCertificate,
                            !.Services = c.Services \o [i \in 1..n |-> svcs[i].service]],
          reads |-> lbName.reads + network.reads + subnet.reads + 1 + 1
                    + (IF wantSSL THEN cert.reads ELSE 0) + 1 + SumReads(svcs, 1) ]

\* The else branch of runLoadBalancer (--yes): no service is configured.
defaultLBConfig(c, a) ==
    LET lbName == promptLB("gcloud-lb", a.name)
        network == promptLB("default", a.network)
        subnet == promptLB("", a.subnet)
    IN  [ cfg |-> [c EXCEPT !.LBName = lbName.val,
                            !.Network = network.val,
                            !.Subnet = subnet.val,
                            !.HealthCheckPort = 8080,
                            !.UseSSL = FALSE],
          reads |-> lbName.reads + network.reads + subnet.reads ]

-----------------------------------------------------------------------------
(* loadbalancer setup: the steps *)

\* A step of the load balancer receives the configuration by value, but the
\* copy's Services slice shares its elements with the caller's: the state of a
\* step carries them.
LBExec(step) ==
    [spawned |-> spawned, printed |-> printed, step |-> step, err |-> Nil,
     Services |-> lbCfg.Services]

\* The run-time panic of an index expression out of range.
IndexPanic == "panic: runtime error: index out of range [0] with length 0"

\* createHealthChecks from service i on; oks[2i-1] is the outcome of the
\* describe command for service i, oks[2i] that of the create command.
RECURSIVE createHealthChecksFrom(_, _, _, _)
createHealthChecksFrom(c, st, i, oks) ==
    IF i > Len(c.Services) THEN [st EXCEPT !.err = Nil]
    ELSE LET service == c.Services[i]
         IN  IF lbDryRun
             THEN createHealthChecksFrom(c,
                      Println(st, "gcloud compute health-checks create http \"" \o service.HealthCheck
                                    \o "\" \\\n  --global \\\n  --port=" \o Itoa(c.HealthCheckPort)
                                    \o " \\\n  --request-path=\"/healthz\" \\\n  --project=\""
                                    \o c.ProjectID \o "\""),
                      i + 1, oks)
             ELSE LET described == Run(st, "gcloud",
                          <<"compute", "health-checks", "describe", service.HealthCheck,
                            "--global", "--project", c.ProjectID>>, oks[2 * i - 1])
                  IN  IF described.err = Nil
                      THEN createHealthChecksFrom(c,
                               Println(described, "  " \o CheckMark \o " Health check '"
                                                    \o service.HealthCheck \o "' already exists"),
                               i + 1, oks)
                      ELSE LET created == Run(Println(described, "  Creating health check '"
                                                    \o service.HealthCheck \o "'..."), "gcloud",
                                   <<"compute", "health-checks", "create", "http", service.HealthCheck,
                                     "--global",
                                     "--port=" \o Itoa(c.HealthCheckPort),
                                     "--request-path=/healthz",
                                     "--project=" \o c.ProjectID>>, oks[2 * i])
                           IN  IF created.err # Nil
                               THEN [created EXCEPT !.err = "failed to create health check: " \o created.err]
                               ELSE createHealthChecksFrom(c,
                                        Println(created, "  " \o CheckMark \o " Health check '"
                                                    \o service.HealthCheck \o "' created"),
                                        i + 1, oks)

createHealthChecks(c, st, oks) == createHealthChecksFrom(c, st, 1, oks)

\* createBackendServices from service i on. The loop variable is a copy of
\* c.Services[i] taken when the iteration starts; the assignments to
\* cfg.Services[i].HealthCheck reach the caller's services.
RECURSIVE createBackendServicesFrom(_, _, _, _)
createBackendServicesFrom(c, st, i, oks) ==
    IF i > Len(st.Services) THEN [st EXCEPT !.err = Nil]
    ELSE LET service == st.Services[i]
             backendName == service.Name \o "-backend"
             protocol == IF service.Protocol = "HTTPS" THEN "HTTPS" ELSE "HTTP"
         IN  IF lbDryRun
             THEN createBackendServicesFrom(c,
                      Println(st, "  [dry-run] Creating backend service '" \o backendName \o "'"),
                      i + 1, oks)
             ELSE LET described == Run(st, "gcloud",
                          <<"compute", "backend-services", "describe", backendName,
                            "--global", "--project", c.ProjectID>>, oks[2 * i - 1])
                  IN  IF described.err = Nil
                      THEN createBackendServicesFrom(c,
                               [Println(described, "  " \o CheckMark \o " Backend service '"
                                                     \o backendName \o "' already exists")
                                   EXCEPT !.Services[i].HealthCheck = backendName],
                               i + 1, oks)
                      ELSE LET created == Run(Println(described, "  Creating backend service '"
                                                     \o backendName \o "'..."), "gcloud",
                                   <<"compute", "backend-services", "create", backendName,
                                     "--global",
                                     "--protocol=" \o protocol,
                                     "--port-name=http",
                                     "--health-checks=" \o service.HealthCheck,
                                     "--load-balancing-scheme=EXTERNAL",
                                     "--enable-cdn",
                                     "--project=" \o c.ProjectID>>, oks[2 * i])
                           IN  IF created.err # Nil
                               THEN [created EXCEPT !.err = "failed to create backend service: " \o created.err]
                               ELSE createBackendServicesFrom(c,
                                        [Println(created, "  " \o CheckMark \o " Backend service '"
                                                     \o backendName \o "' created")
                                            EXCEPT !.Services[i].HealthCheck = backendName],
                                        i + 1, oks)

createBackendServices(c, st, oks) == createBackendServicesFrom(c, st, 1, oks)

\* The loop of createURLMap over the services; a failure is printed and ignored.
RECURSIVE addPathRulesFrom(_, _, _, _)
addPathRulesFrom(c, st, i, oks) ==
    IF i > Len(c.Services)
    THEN [Println(st, "  " \o CheckMark \o " URL map '" \o c.LBName \o "-url-map' created")
             EXCEPT !.err = Nil]
    ELSE LET service == c.Services[i]
             backendName == service.Name \o "-backend"
             added == Run(Println(st, "  Adding path rule '" \o service.Path \o "' -> " \o backendName),
                          "gcloud",
                          <<"compute", "url-maps", "add-path-rule", c.LBName \o "-url-map",
                            "--service=" \o backendName,
                            "--path-pattern=" \o service.Path,
                            "--project=" \o c.ProjectID>>, oks[2 + i])
         IN  addPathRulesFrom(c,
                 IF added.err # Nil
                 THEN Println(added, "  " \o WarningSign
                                 \o " Could not add path rule (may already exist): " \o added.err)
                 ELSE added,
                 i + 1, oks)

\* createURLMap; oks[1] is the outcome of describe, oks[2] of create, oks[2+i]
\* of the path rule of service i. cfg.Services[0] panics when there is no
\* service.
\* Mutant of createURLMap: the describe command is run in a dry run too.
createURLMapDescribing(c, st, oks) ==
    LET urlMapName == c.LBName \o "-url-map"
        described == Run(st, "gcloud",
                         <<"compute", "url-maps", "describe", urlMapName, "--project", c.ProjectID>>,
                         oks[1])
    IN  IF lbDryRun
        THEN [Println(described, "  [dry-run] Creating URL map '" \o urlMapName \o "'")
                 EXCEPT !.err = Nil]
        ELSE described

createURLMap(c, st, oks) ==
    LET urlMapName == c.LBName \o "-url-map"
    IN  IF lbDryRun
        THEN [Println(st, "  [dry-run] Creating URL map '" \o urlMapName \o "'") EXCEPT !.err = Nil]
        ELSE LET described == Run(st, "gcloud",
                     <<"compute", "url-maps", "describe", urlMapName, "--project", c.ProjectID>>,
                     oks[1])
             IN  IF described.err = Nil
                 THEN Println(described, "  " \o CheckMark \o " URL map '" \o urlMapName
                                            \o "' already exists")
                 ELSE IF Len(c.Services) = 0 THEN [described EXCEPT !.err = IndexPanic]
                 ELSE LET defaultBackend == c.Services[1].Name \o "-backend"
                          created == Run(Println(described, "  Creating URL map '" \o urlMapName \o "'..."),
                              "gcloud",
                              <<"compute", "url-maps", "create", urlMapName,
                                "--default-service=" \o defaultBackend,
                                "--project=" \o c.ProjectID>>, oks[2])
                      IN  IF created.err # Nil
                          THEN [created EXCEPT !.err = "failed to create URL map: " \o created.err]
                          ELSE addPathRulesFrom(c, created, 1, oks)

createHTTPSProxy(c, st, oks) ==
    LET proxyName == c.LBName \o "-proxy"
        urlMapName == c.LBName \o "-url-map"
        protocol == IF c.UseSSL THEN "HTTPS" ELSE "HTTP"
    IN  IF lbDryRun
        THEN [Println(st, "  [dry-run] Creating HTTP(S) proxy '" \o proxyName \o "'") EXCEPT !.err = Nil]
        ELSE LET described == Run(st, "gcloud",
                     <<"compute", ToLower(protocol) \o "-proxies", "describe", proxyName,
                       "--global", "--project", c.ProjectID>>, oks[1])
             IN  IF described.err = Nil
                 THEN Println(described, "  " \o CheckMark \o " " \o protocol \o " proxy '"
                                            \o proxyName \o "' already exists")
                 ELSE IF protocol = "HTTP"
                 THEN LET created == Run(Println(described, "  Creating HTTP proxy '" \o proxyName \o "'..."),
                              "gcloud",
                              <<"compute", "http-proxies", "create", proxyName,
                                "--url-map=" \o urlMapName,
                                "--project=" \o c.ProjectID>>, oks[2])
                      IN  IF created.err # Nil
                          THEN [created EXCEPT !.err = "failed to create HTTP proxy: " \o created.err]
                          ELSE Println(created, "  " \o CheckMark \o " HTTP proxy '" \o proxyName \o "' created")
                 ELSE LET created == Run(Println(described, "  Creating HTTPS proxy '" \o proxyName \o "'..."),
                              "gcloud",
                              <<"compute", "https-proxies", "create", proxyName,
                                "--url-map=" \o urlMapName,
                                "--ssl-certificates=" \o c.SSLCertificate,
                                "--project=" \o c.ProjectID>>, oks[2])
                      IN  IF created.err # Nil
                          THEN [created EXCEPT !.err = "failed to create HTTPS proxy: " \o created.err]
                          ELSE Println(created, "  " \o CheckMark \o " HTTPS proxy '" \o proxyName \o "' created")

createForwardingRule(c, st, oks) ==
    LET ruleName == c.LBName \o "-forwarding-rule"
        proxyName == c.LBName \o "-proxy"
        protocol == IF c.UseSSL THEN "HTTPS" ELSE "HTTP"
        port == IF c.UseSSL THEN 443 ELSE 80
    IN  IF lbDryRun
        THEN [Println(st, "  [dry-run] Creating forwarding rule '" \o ruleName \o "'") EXCEPT !.err = Nil]
        ELSE LET described == Run(st, "gcloud",
                     <<"compute", "forwarding-rules", "describe", ruleName,
                       "--global", "--project", c.ProjectID>>, oks[1])
             IN  IF described.err = Nil
                 THEN Println(described, "  " \o CheckMark \o " Forwarding rule '" \o ruleName
                                            \o "' already exists")
                 ELSE LET created == Run(Println(described, "  Creating forwarding rule '" \o ruleName \o "'..."),
                              "gcloud",
                              <<"compute", "forwarding-rules", "create", ruleName,
                                "--global",
                                "--target-" \o ToLower(protocol) \o "-proxy=" \o proxyName,
                                "--address=" \o c.LBName \o "-ip",
                                "--ports=" \o Itoa(port),
                                "--project=" \o c.ProjectID>>, oks[2])
                      IN  IF created.err # Nil
                          THEN [created EXCEPT !.err = "failed to create forwarding rule: " \o created.err]
                          ELSE Println(created, "  " \o CheckMark \o " Forwarding rule '" \o ruleName \o "' created")

\* Mutant of lbSteps: the URL map is created before the backend services.
lbStepsSwapped == <<
    [name |-> "Creating Health Checks", fn |-> "createHealthChecks"],
    [name |-> "Creating URL Map", fn |-> "createURLMap"],
    [name |-> "Creating Backend Services", fn |-> "createBackendServices"],
    [name |-> "Creating HTTP(S) Proxy", fn |-> "createHTTPSProxy"],
    [name |-> "Creating Forwarding Rule", fn |-> "createForwardingRule"] >>

\* The steps slice of runLoadBalancer.
lbSteps == <<
    [name |-> "Creating Health Checks", fn |-> "createHealthChecks"],
    [name |-> "Creating Backend Services", fn |-> "createBackendServices"],
    [name |-> "Creating URL Map", fn |-> "createURLMap"],
    [name |-> "Creating HTTP(S) Proxy", fn |-> "createHTTPSProxy"],
    [name |-> "Creating Forwarding Rule", fn |-> "createForwardingRule"] >>

-----------------------------------------------------------------------------
(* loadbalancer setup: the run *)

\* What the user may type at the prompts of loadbalancer setup: the answers
\* before the services (all defaults; all custom, with SSL; a port that is not
\* a number and SSL without a certificate; a capital that is not Y at the SSL
\* question), the answer to "How many
\* services?", and the four answers about one service.
LBLines == {
    [name |-> "\n", network |-> "\n", subnet |-> "\n", port |-> "\n", ssl |-> "\n", cert |-> "\n"],
    [name |-> "edge\n", network |-> "vpc-1\n", subnet |-> "subnet-1\n", port |-> "9090\n",
     ssl |-> "Y\n", cert |-> "edge-cert\n"],
    [name |-> "\n", network |-> "\n", subnet |-> "\n", port |-> "http\n", ssl |-> "y\n", cert |-> "\n"],
    [name |-> "\n", network |-> "\n", subnet |-> "\n", port |-> "\n", ssl |-> "É\n", cert |-> "\n"] }

NumServicesLines == {"\n", "\f\n", "0\n", "2\n", "-1\n", "two\n", "2_0\n", "_2\n", "99999999999999999999\n"}

ServiceLines == {
    [name |-> "\n", protocol |-> "\n", port |-> "\n", path |-> "\n"],
    [name |-> "api\n", protocol |-> "HTTPS\n", port |-> " 3000\n", path |-> "/v1/*\n"] }

InitLB ==
    /\ command = "loadbalancer"
    /\ flags = [x \in Keys |-> NoFlag]
    /\ environ = [x \in Keys |-> Unset]
    /\ \E id \in {Unset, [set |-> TRUE, val |-> FileValue("GCP_PROJECT_ID")]} :
          file = [x \in Keys |-> IF x = "GCP_PROJECT_ID" THEN id
                                 ELSE [set |-> TRUE, val |-> FileValue(x)]]
    /\ dryRun = FALSE
    /\ projectDryRun = FALSE /\ projectNonInteractive = FALSE
    /\ lbDryRun \in BOOLEAN /\ lbNonInteractive \in BOOLEAN
    /\ Entered("lb:checkGcloud")

\* What runLoadBalancer never touches.
notLB == <<cfg, projectCfg, stderr, exited, exitStatus, fs>>

LBCheckGcloud ==
    /\ pc = "lb:checkGcloud"
    /\ \E found \in BOOLEAN :
          LET r == checkGcloud(Exec(0), found)
          IN  IF r.err # Nil
              THEN err' = r.err /\ pc' = "done"
              ELSE err' = err /\ pc' = "lb:loadConfig"
    /\ UNCHANGED <<inputs, notLB, lbCfg, stdinReads, stepIdx, started, spawned, printed, complete>>

\* The composite literal of runLoadBalancer and the test of cfg.ProjectID.
LBLoadConfig ==
    /\ pc = "lb:loadConfig"
    /\ lbCfg' = [EmptyLoadBalancerConfig EXCEPT
                    !.ProjectID = GetString("GCP_PROJECT_ID"),
                    !.ProjectNumber = GetString("GCP_PROJECT_NUMBER"),
                    !.Region = GetString("CLOUD_RUN_REGION")]
    /\ IF lbCfg'.ProjectID = ""
       THEN err' = "GCP_PROJECT_ID is required" /\ pc' = "done"
       ELSE err' = err /\ pc' = "lb:configure"
    /\ UNCHANGED <<inputs, notLB, stdinReads, stepIdx, started, spawned, printed, complete>>

LBConfigure ==
    /\ pc = "lb:configure"
    /\ \E a \in LBLines, num \in NumServicesLines :
          \E services \in [1..numServices(num) -> ServiceLines] :
             LET answers == [name |-> a.name, network |-> a.network, subnet |-> a.subnet,
                             port |-> a.port, ssl |-> a.ssl, cert |-> a.cert, num |-> num,
                             services |-> services]
                 r == IF ~lbNonInteractive
                      THEN interactiveLBConfig(lbCfg, answers)
                      ELSE defaultLBConfig(lbCfg, answers)
             IN  /\ lbCfg' = r.cfg
                 /\ stdinReads' = stdinReads + r.reads
    /\ pc' = "lb:confirm"
    /\ UNCHANGED <<inputs, notLB, stepIdx, started, spawned, printed, complete, err>>

LBConfirm ==
    /\ pc = "lb:confirm"
    /\ IF ~lbNonInteractive
       THEN \E agreed \in BOOLEAN :
               LET r == promptConfirm(agreed)
               IN  /\ stdinReads' = stdinReads + r.reads
                   /\ IF ~r.val
                      THEN err' = Nil /\ pc' = "done"
                      ELSE err' = err /\ pc' = "lb:steps"
       ELSE /\ pc' = "lb:steps"
            /\ UNCHANGED <<stdinReads, err>>
    /\ UNCHANGED <<inputs, notLB, lbCfg, stepIdx, started, spawned, printed, complete>>

\* One iteration of the loop over the steps of runLoadBalancer. A panic ends
\* the process where it is raised: nothing is returned to the loop.
LBIteration(r) ==
    /\ started' = Append(started, lbSteps[stepIdx + 1].name)
    /\ spawned' = r.spawned
    /\ printed' = r.printed
    /\ lbCfg' = [lbCfg EXCEPT !.Services = r.Services]
    /\ IF r.err = IndexPanic
       THEN /\ err' = r.err
            /\ pc' = "panic"
            /\ stepIdx' = stepIdx
       ELSE IF r.err # Nil
       THEN /\ err' = lbSteps[stepIdx + 1].name \o " failed: " \o r.err
            /\ pc' = "done"
            /\ stepIdx' = stepIdx
       ELSE /\ stepIdx' = stepIdx + 1
            /\ UNCHANGED <<err, pc>>
    /\ UNCHANGED <<inputs, notLB, stdinReads, complete>>

AtLBStep(fn) ==
    pc = "lb:steps" /\ stepIdx < Len(lbSteps) /\ lbSteps[stepIdx + 1].fn = fn

StepCreateHealthChecks ==
    /\ AtLBStep("createHealthChecks")
    /\ \E oks \in [1..(2 * Len(lbCfg.Services)) -> BOOLEAN] :
          LBIteration(createHealthChecks(lbCfg, LBExec(stepIdx + 1), oks))

StepCreateBackendServices ==
    /\ AtLBStep("createBackendServices")
    /\ \E oks \in [1..(2 * Len(lbCfg.Services)) -> BOOLEAN] :
          LBIteration(createBackendServices(lbCfg, LBExec(stepIdx + 1), oks))

StepCreateURLMap ==
    /\ AtLBStep("createURLMap")
    /\ \E oks \in [1..(2 + Len(lbCfg.Services)) -> BOOLEAN] :
          LBIteration(createURLMap(lbCfg, LBExec(stepIdx + 1), oks))

StepCreateHTTPSProxy ==
    /\ AtLBStep("createHTTPSProxy")
    /\ \E oks \in [1..2 -> BOOLEAN] :
          LBIteration(createHTTPSProxy(lbCfg, LBExec(stepIdx + 1), oks))

StepCreateForwardingRule ==
    /\ AtLBStep("createForwardingRule")
    /\ \E oks \in [1..2 -> BOOLEAN] :
          LBIteration(createForwardingRule(lbCfg, LBExec(stepIdx + 1), oks))

\* After the loop: "Load Balancer Configuration Complete!", and return nil.
LBComplete ==
    /\ pc = "lb:steps"
    /\ stepIdx = Len(lbSteps)
    /\ complete' = TRUE
    /\ err' = Nil
    /\ pc' = "done"
    /\ UNCHANGED <<inputs, notLB, lbCfg, stdinReads, stepIdx, started, spawned, printed>>

\* The stack traces the Go runtime prints after the message of a panic.
GoroutineTrace == "<goroutine trace>"

\* The Go runtime when a goroutine panics and nothing recovers: the message
\* and the traces are written to standard error and the process ends with
\* status 2; Execute is never returned to.
Panic ==
    /\ pc = "panic"
    /\ ~exited
    /\ stderr' = stderr \o <<err, GoroutineTrace>>
    /\ exited' = TRUE
    /\ exitStatus' = 2
    /\ UNCHANGED <<inputs, pc, cfg, projectCfg, lbCfg, stdinReads, stepIdx, started, spawned,
                   printed, complete, err, fs>>

NextLB ==
    \/ LBCheckGcloud
    \/ LBLoadConfig
    \/ LBConfigure
    \/ LBConfirm
    \/ StepCreateHealthChecks
    \/ StepCreateBackendServices
    \/ StepCreateURLMap
    \/ StepCreateHTTPSProxy
    \/ StepCreateForwardingRule
    \/ LBComplete
    \/ Execute
    \/ Panic

SpecLB == InitLB /\ [][NextLB]_vars

-----------------------------------------------------------------------------
(* init: cmd/init.go *)

\* The embedded templates; their text is not part of the sources.
DeployWorkflow == "<embedded gcloud-deploy.yml>"
EnvTemplate == "<embedded env.gcloud.template>"

\* How a call that opens a file and writes to it may end: everything written;
\* the open fails; the open succeeds and the write fails part-way.
\* How writing content to a file can end: the whole content is written, the
\* open fails, or the write fails after written bytes, any number short of all.
Outcomes(content) ==
    {[kind |-> "ok", written |-> Len(content)], [kind |-> "open", written |-> 0]}
    \cup {[kind |-> "write", written |-> n] : n \in 0..(Len(content) - 1)}

OpenError(path) == "open " \o path \o ": permission denied"
WriteError(path) == "write " \o path \o ": no space left on device"

\* What a write that fails after n bytes leaves of content.
Partial(content, n) == SubSeq(content, 1, n)

\* os.WriteFile(path, content, 0644): open with O_WRONLY|O_CREATE|O_TRUNC, write,
\* close. A file that exists keeps its mode and loses its data when opened.
osWriteFile(f, path, content, outcome) ==
    LET mode == IF f[path].exists THEN f[path].mode ELSE "rw"
    IN  IF outcome.kind = "open" \/ (f[path].exists /\ f[path].mode = "r")
        THEN [fs |-> f, err |-> OpenError(path)]
        ELSE IF outcome.kind = "write"
        THEN [fs |-> [f EXCEPT ![path] = File(Partial(content, outcome.written), mode)],
              err |-> WriteError(path)]
        ELSE [fs |-> [f EXCEPT ![path] = File(content, mode)], err |-> Nil]

\* Mutant of writeFileIfNotExists: the file is written whether it exists or not.
writeFileAlways(f, path, content, outcome) == osWriteFile(f, path, content, outcome)

\* os.Stat(path) returns nil for a file that exists, whatever its mode.
writeFileIfNotExists(f, path, content, outcome) ==
    IF f[path].exists
    THEN [fs |-> f, err |-> "file already exists: " \o path]
    ELSE osWriteFile(f, path, content, outcome)

\* The loop of containsSubstring from index i (Go's, from 0).
RECURSIVE containsSubstringFrom(_, _, _)
containsSubstringFrom(s, substr, i) ==
    IF i > Len(s) - Len(substr) THEN FALSE
    ELSE IF SubSeq(s, i + 1, i + Len(substr)) = substr THEN TRUE
    ELSE containsSubstringFrom(s, substr, i + 1)

containsSubstring(s, substr) == containsSubstringFrom(s, substr, 0)

contains(s, substr) ==
    Len(s) >= Len(substr) /\ (s = substr \/ (Len(s) > 0 /\ containsSubstring(s, substr)))

entry == "\n# GCloud setup\n.env.gcloud\n"

\* appendToGitignore(path). os.ReadFile returns an error for a path with no
\* file and for a file that cannot be read; os.OpenFile with
\* O_APPEND|O_WRONLY fails on a file that cannot be written.
appendToGitignore(f, path, outcome) ==
    IF f[path].exists /\ f[path].mode # "w"
    THEN IF contains(f[path].data, ".env.gcloud") THEN [fs |-> f, err |-> Nil]
         ELSE IF outcome.kind = "open" \/ f[path].mode = "r"
         THEN [fs |-> f, err |-> OpenError(path)]
         ELSE IF outcome.kind = "write"
         THEN [fs |-> [f EXCEPT ![path].data = @ \o Partial(entry, outcome.written)],
               err |-> WriteError(path)]
         ELSE [fs |-> [f EXCEPT ![path].data = @ \o entry], err |-> Nil]
    ELSE osWriteFile(f, path, entry, outcome)

\* The files init may find: a workflow and an .env.gcloud of an earlier run or
\* none, and a .gitignore of several kinds.
WorkflowFiles == {Absent, File("name: old\n", "rw")}
EnvFiles == {Absent, File("GCP_PROJECT_ID=old\n", "rw")}
GitignoreFiles == {
    Absent,
    File("", "rw"),
    File(".env", "rw"),
    File("node_modules", "rw"),
    File("node_modules\n", "rw"),
    File("node_modules\n", "r"),
    File("node_modules\n", "w"),
    File("*.log\n", "rw"),
    File(".env.gcloud", "rw"),
    File("dist\n.env.gcloud.bak\n", "rw"),
    File(entry, "rw") }

InitInit ==
    /\ command = "init"
    /\ flags = [x \in Keys |-> NoFlag]
    /\ environ = [x \in Keys |-> Unset]
    /\ file = [x \in Keys |-> Unset]
    /\ dryRun = FALSE
    /\ projectDryRun = FALSE /\ projectNonInteractive = FALSE
    /\ lbDryRun = FALSE /\ lbNonInteractive = FALSE
    /\ \E w \in WorkflowFiles, e \in EnvFiles, g \in GitignoreFiles :
          EnteredIn("init:Getwd",
                    [p \in Paths |-> IF p = WorkflowPath THEN w
                                     ELSE IF p = EnvPath THEN e ELSE g])

\* What runInit never touches.
notInit == <<inputs, cfg, projectCfg, lbCfg, stdinReads, stepIdx, started, spawned, printed,
             complete, stderr, exited, exitStatus>>

\* os.Getwd fails when the current directory was removed: no file is in it.
InitGetwd ==
    /\ pc = "init:Getwd"
    /\ \E ok \in {TRUE} \cup {b \in {FALSE} : fs = NoFiles} :
          IF ok THEN pc' = "init:MkdirAll" /\ err' = err
          ELSE /\ err' = "failed to get current directory: getwd: no such file or directory"
               /\ pc' = "done"
    /\ UNCHANGED <<notInit, fs>>

\* os.MkdirAll fails only when the directory is not there yet.
InitMkdirAll ==
    /\ pc = "init:MkdirAll"
    /\ \E ok \in {TRUE} \cup {b \in {FALSE} : ~fs[WorkflowPath].exists} :
          IF ok THEN pc' = "init:workflow" /\ err' = err
          ELSE /\ err' = "failed to create .github/workflows directory: mkdir "
                             \o Cwd \o "/.github: permission denied"
               /\ pc' = "done"
    /\ UNCHANGED <<notInit, fs>>

\* writeFileIfNotExists(path, content) as runInit calls it, going on to next.
InitWrite(path, content, next) ==
    \E outcome \in Outcomes(content) :
       LET r == writeFileIfNotExists(fs, path, content, outcome)
       IN  /\ fs' = r.fs
           /\ IF r.err # Nil
              THEN err' = r.err /\ pc' = "done"
              ELSE err' = err /\ pc' = next
           /\ UNCHANGED notInit

InitWriteWorkflow ==
    /\ pc = "init:workflow"
    /\ InitWrite(WorkflowPath, DeployWorkflow, "init:env")

InitWriteEnv ==
    /\ pc = "init:env"
    /\ InitWrite(EnvPath, EnvTemplate, "init:gitignore")

\* The error of appendToGitignore is printed, not returned: runInit returns nil.
InitGitignore ==
    /\ pc = "init:gitignore"
    /\ \E outcome \in Outcomes(entry) :
          fs' = appendToGitignore(fs, GitignorePath, outcome).fs
    /\ err' = Nil
    /\ pc' = "done"
    /\ UNCHANGED notInit

NextInit ==
    \/ InitGetwd
    \/ InitMkdirAll
    \/ InitWriteWorkflow
    \/ InitWriteEnv
    \/ InitGitignore
    \/ Execute

SpecInit == InitInit /\ [][NextInit]_vars

-----------------------------------------------------------------------------
(* appendToGitignore called again and again on one .gitignore *)

MaxCalls == 2

InitGitignoreCalls ==
    /\ command = "init"
    /\ flags = [x \in Keys |-> NoFlag]
    /\ environ = [x \in Keys |-> Unset]
    /\ file = [x \in Keys |-> Unset]
    /\ dryRun = FALSE
    /\ projectDryRun = FALSE /\ projectNonInteractive = FALSE
    /\ lbDryRun = FALSE /\ lbNonInteractive = FALSE
    /\ \E g \in GitignoreFiles :
          EnteredIn("appendToGitignore", [p \in Paths |-> IF p = GitignorePath THEN g ELSE Absent])

\* One call; stepIdx counts the calls, err is what the last one returned.
CallAppendToGitignore ==
    /\ pc = "appendToGitignore"
    /\ stepIdx < MaxCalls
    /\ \E outcome \in Outcomes(entry) :
          LET r == appendToGitignore(fs, GitignorePath, outcome)
          IN  fs' = r.fs /\ err' = r.err
    /\ stepIdx' = stepIdx + 1
    /\ UNCHANGED <<inputs, pc, cfg, projectCfg, lbCfg, stdinReads, started, spawned, printed,
                   complete, stderr, exited, exitStatus>>

NextGitignoreCalls == CallAppendToGitignore

SpecGitignoreCalls == InitGitignoreCalls /\ [][NextGitignoreCalls]_vars

-----------------------------------------------------------------------------
(* scripts/setup-all.sh *)

ScriptDir == Cwd \o "/scripts"

\* The variables setup-all.sh requires.
SetupAllVars == <<"GCP_PROJECT_ID", "GCP_PROJECT_NUMBER", "GITHUB_ORGANIZATION", "GITHUB_REPOSITORY">>

\* The .env file load_env reads: in the directory above gcloud/_common.sh.
DotEnvPath == ScriptDir \o "/.env"

\* The text of a .env file that makes the assignments f, one to a line.
RECURSIVE DotEnvLines(_, _)
DotEnvLines(f, names) ==
    IF names = << >> THEN ""
    ELSE (IF f[Head(names)].set THEN Head(names) \o "=" \o f[Head(names)].val \o "\n" ELSE "")
         \o DotEnvLines(f, Tail(names))

\* load_env: [[ -f "$env_file" ]], then the file is announced and sourced
\* under set -a, so each of its assignments replaces the variable's value;
\* f holds the assignments of the file.
DotEnvExists(files) == files[DotEnvPath].exists

load_env(env, f) == [x \in Keys |-> IF f[x].set THEN f[x] ELSE env[x]]

\* require_vars: the names among names that are unset or empty, in order;
\* the caller exits with status 1 when there is one.
require_vars(env, names) == SelectSeq(names, LAMBDA v : ~env[v].set \/ env[v].val = "")

RECURSIVE MissingLines(_)
MissingLines(missing) ==
    IF missing = << >> THEN << >>
    ELSE <<"  - " \o Head(missing)>> \o MissingLines(Tail(missing))

\* Mutant of errexit: the shell goes on after a command that failed.
errexitOff(status) == FALSE

\* set -e: the shell exits, with the command's status, when a command fails.
errexit(status) == status # 0

\* The five step scripts with the lines announcing them, in the order of the file.
setupAllScripts == <<
    [header |-> "Step 1/5: Enabling APIs...",
     path |-> ScriptDir \o "/gcloud/01-enable-apis.sh"],
    [header |-> "Step 2/5: Creating Service Account...",
     path |-> ScriptDir \o "/gcloud/02-create-service-account.sh"],
    [header |-> "Step 3/5: Setting up Workload Identity Federation...",
     path |-> ScriptDir \o "/gcloud/03-iam-setup.sh"],
    [header |-> "Step 4/5: Creating Artifact Registry...",
     path |-> ScriptDir \o "/gcloud/04-artifact-registry-setup.sh"],
    [header |-> "Step 5/5: Configuring GitHub Repository...",
     path |-> ScriptDir \o "/github/06-github-setup.sh"] >>

Rule == "=============================================="
Dashes == "----------------------------------------------"

\* The exit statuses of a step script: success, a failed command, a missing
\* variable or program.
ExitStatuses == {0, 1, 127}

\* The variables setup-all.sh gives a default, with the default.
SetupAllDefaults ==
    [x \in {"SERVICE_ACCOUNT_NAME", "ARTIFACT_REGISTRY_NAME", "ARTIFACT_REGISTRY_LOCATION"} |->
       CASE x = "SERVICE_ACCOUNT_NAME" -> "github-actions"
         [] x = "ARTIFACT_REGISTRY_NAME" -> "docker-registry"
         [] x = "ARTIFACT_REGISTRY_LOCATION" -> "europe-west1"]

\* ${VAR:-default} for the three optional variables, the derived
\* SERVICE_ACCOUNT_EMAIL, and the export of all of them.
ExportDefaults(env) ==
    LET withDefaults ==
            [x \in Keys |->
               IF x \in DOMAIN SetupAllDefaults /\ (~env[x].set \/ env[x].val = "")
               THEN [set |-> TRUE, val |-> SetupAllDefaults[x]]
               ELSE env[x]]
    IN  [x \in Keys \cup {"SERVICE_ACCOUNT_EMAIL"} |->
           IF x = "SERVICE_ACCOUNT_EMAIL"
           THEN [set |-> TRUE,
                 val |-> withDefaults["SERVICE_ACCOUNT_NAME"].val \o "@"
                            \o withDefaults["GCP_PROJECT_ID"].val \o ".iam.gserviceaccount.com"]
           ELSE withDefaults[x]]

\* The environment has every required variable, and the service-account
\* name, unset, empty or set; the .env file is absent, or exists and assigns
\* nothing, the project ID, or all four required variables.
InitSetupAll ==
    /\ command = "setup-all.sh"
    /\ flags = [x \in Keys |-> NoFlag]
    /\ environ \in {e \in [Keys -> {Unset, [set |-> TRUE, val |-> ""],
                                    [set |-> TRUE, val |-> "from-env"]}] :
                      \A x \in Keys \ (Range(SetupAllVars) \cup {"SERVICE_ACCOUNT_NAME"}) :
                         e[x] = Unset}
    /\ dryRun = FALSE
    /\ projectDryRun = FALSE /\ projectNonInteractive = FALSE
    /\ lbDryRun = FALSE /\ lbNonInteractive = FALSE
    /\ \E exists \in BOOLEAN, assigned \in { {}, {"GCP_PROJECT_ID"}, Range(SetupAllVars) } :
          /\ assigned # {} => exists
          /\ file = [x \in Keys |-> IF x \in assigned
                                    THEN [set |-> TRUE, val |-> "from-dotenv"] ELSE Unset]
          /\ EnteredIn("setup-all:source",
                       [p \in {DotEnvPath} |->
                          IF exists THEN File(DotEnvLines(file, RequiredVars), "rw") ELSE Absent])

notSetupAll == <<command, flags, file, dryRun, projectDryRun, projectNonInteractive,
                 lbDryRun, lbNonInteractive, cfg, projectCfg, lbCfg, stdinReads, fs, err>>

\* source gcloud/_common.sh: the functions are defined and load_env is called.
SetupAllSource ==
    /\ pc = "setup-all:source"
    /\ environ' = IF DotEnvExists(fs) THEN load_env(environ, file) ELSE environ
    /\ printed' = IF DotEnvExists(fs)
                  THEN Append(printed, "Loading environment from: " \o DotEnvPath)
                  ELSE printed
    /\ pc' = "setup-all:require_vars"
    /\ UNCHANGED <<notSetupAll, stepIdx, started, spawned, complete, stderr, exited, exitStatus>>

\* require_vars of the four variables, then the defaults, the exports and the
\* banner.
SetupAllRequireVars ==
    /\ pc = "setup-all:require_vars"
    /\ LET missing == require_vars(environ, SetupAllVars)
       IN  IF missing # << >>
           THEN /\ stderr' = stderr
                       \o <<"Error: The following required environment variables are not set:">>
                       \o MissingLines(missing)
                       \o <<"", "Set them in .env file or export them before running.">>
                /\ exited' = TRUE
                /\ exitStatus' = 1
                /\ pc' = "done"
                /\ UNCHANGED <<printed, environ>>
           ELSE /\ environ' = ExportDefaults(environ)
                /\ printed' = printed \o
                       << Rule, "GCloud Project Setup", Rule,
                          "Project ID:     " \o environ["GCP_PROJECT_ID"].val,
                          "Project Number: " \o environ["GCP_PROJECT_NUMBER"].val,
                          "GitHub:         " \o environ["GITHUB_ORGANIZATION"].val
                              \o "/" \o environ["GITHUB_REPOSITORY"].val,
                          Rule, "" >>
                /\ pc' = "setup-all:steps"
                /\ UNCHANGED <<stderr, exited, exitStatus>>
    /\ UNCHANGED <<notSetupAll, stepIdx, started, spawned, complete>>

\* The next step: its two lines are printed, its script runs as a child
\* process and exits with status; under set -e a failure ends the shell.
SetupAllStep ==
    /\ pc = "setup-all:steps"
    /\ stepIdx < Len(setupAllScripts)
    /\ \E status \in ExitStatuses :
          LET script == setupAllScripts[stepIdx + 1]
          IN  /\ started' = Append(started, script.path)
              /\ spawned' = Append(spawned, [name |-> script.path, args |-> << >>,
                                             ok |-> status = 0, step |-> stepIdx + 1])
              /\ IF errexit(status)
                 THEN /\ printed' = printed \o <<script.header, Dashes>>
                      /\ exited' = TRUE
                      /\ exitStatus' = status
                      /\ pc' = "done"
                      /\ UNCHANGED stepIdx
                 ELSE /\ printed' = printed \o <<script.header, Dashes, "">>
                      /\ stepIdx' = stepIdx + 1
                      /\ UNCHANGED <<exited, exitStatus, pc>>
    /\ UNCHANGED <<notSetupAll, environ, complete, stderr>>

\* The summary after the last step, and the end of the script.
SetupAllSummary ==
    /\ pc = "setup-all:steps"
    /\ stepIdx = Len(setupAllScripts)
    /\ printed' = printed \o
          << Rule, "Setup Complete!", Rule, "",
             "Your repository is fully configured.",
             "Push to main or create a PR to trigger a deployment.",
             "",
             "Optional: Run 05-secret-manager-setup.sh to create secrets",
             "  export SECRETS_TO_CREATE=\"DATABASE_URL API_KEY\"",
             "  ./05-secret-manager-setup.sh" >>
    /\ complete' = TRUE
    /\ exited' = TRUE
    /\ exitStatus' = 0
    /\ pc' = "done"
    /\ UNCHANGED <<notSetupAll, environ, stepIdx, started, spawned, stderr>>

NextSetupAll == SetupAllSource \/ SetupAllRequireVars \/ SetupAllStep \/ SetupAllSummary

SpecSetupAll == InitSetupAll /\ [][NextSetupAll]_vars

-----------------------------------------------------------------------------
(* One run of the program: of setup, of project create or of loadbalancer setup *)

InitAll == Init \/ InitProject \/ InitLB

NextAll == Next \/ NextProject \/ NextLB

SpecAll == InitAll /\ [][NextAll]_vars

-----------------------------------------------------------------------------
(* Vocabulary of the properties *)

HasPrefix(s, prefix) == Len(s) >= Len(prefix) /\ SubSeq(s, 1, Len(prefix)) = prefix

\* The processes a step ran, in order.
CommandsOf(step) == SelectSeq(spawned, LAMBDA p : p.step = step)

\* The commands the steps ran (all but the pre-check `gh auth status`).
StepCommands == SelectSeq(spawned, LAMBDA p : p.step >= 1)

\* The four idempotent creates of setup.
IsCreate(p) ==
    /\ p.name = "gcloud"
    /\ \/ SubSeq(p.args, 1, 3) = <<"iam", "service-accounts", "create">>
       \/ SubSeq(p.args, 1, 3) = <<"iam", "workload-identity-pools", "create">>
       \/ SubSeq(p.args, 1, 4) = <<"iam", "workload-identity-pools", "providers", "create-oidc">>
       \/ SubSeq(p.args, 1, 3) = <<"artifacts", "repositories", "create">>

StepNames == <<
    "Enabling APIs",
    "Creating Service Account",
    "Setting up Workload Identity Federation",
    "Creating Artifact Registry",
    "Configuring GitHub Repository" >>

\* Commands per step: 7 API enables, 1 + 6 service-account commands, 3
\* federation commands, 1 registry create, 5 gh sets.
StepSizes == <<7, 7, 3, 1, 5>>

-----------------------------------------------------------------------------
(* C1 *)

\* C1 (as claimed): with --dry-run set, a run of setup spawns no external
\* process at any point of the run, the pre-checks included.
C1_DryRunSpawnsNothing == dryRun => spawned = << >>

-----------------------------------------------------------------------------
(* C2 *)

\* C2: the steps start in the fixed order Enabling APIs, Creating Service
\* Account, Setting up Workload Identity Federation, Creating Artifact Registry,
\* Configuring GitHub Repository; step i+1 starts only after step i returned
\* without error (every earlier step has returned nil, and none of its commands
\* other than a create failed); no step is skipped or reordered: the steps
\* started are a prefix of that list, the processes run belong to started steps
\* in non-decreasing step order, and a run that returns nil started all five.
C2_FixedOrder ==
    /\ IsPrefix(started, StepNames)
    /\ stepIdx \in {Len(started) - 1, Len(started)} \cap 0..5
    /\ stepIdx = Len(started) - 1 => pc = "done" /\ err # Nil
    /\ \A j \in 1..Len(spawned) :
          /\ spawned[j].step <= Len(started)
          /\ j > 1 => spawned[j - 1].step <= spawned[j].step
          /\ (spawned[j].step >= 1 /\ spawned[j].step < Len(started) /\ ~spawned[j].ok)
                => IsCreate(spawned[j])
    /\ ~dryRun => \A i \in 1..Len(started) : CommandsOf(i) # << >>
    /\ (pc = "done" /\ err = Nil) => started = StepNames /\ stepIdx = 5

C2_Witness ==
    /\ pc = "done" /\ err = Nil /\ ~dryRun /\ started = StepNames
    /\ Len(CommandsOf(3)) = 3 /\ Len(CommandsOf(5)) = 5

-----------------------------------------------------------------------------
(* C3 *)

\* C3: a failure of one of the four create commands does not abort the run:
\* the command after it is still executed, and a run of the steps in which only
\* creates failed executes all 23 step commands and returns nil; a failure of
\* any other step command is the last command of the run and makes the step,
\* and the run, return an error.
C3_CreateFailuresIgnored ==
    /\ \A j \in 1..Len(spawned) :
          (spawned[j].step >= 1 /\ ~spawned[j].ok /\ ~IsCreate(spawned[j]))
             => /\ j = Len(spawned)
                /\ pc = "done"
                /\ err # Nil
                /\ stepIdx = spawned[j].step - 1
                /\ HasPrefix(err, StepNames[spawned[j].step] \o " failed: ")
    /\ (pc = "done" /\ ~dryRun /\ started # << >>
          /\ \A j \in 1..Len(spawned) :
                (spawned[j].step >= 1 /\ ~spawned[j].ok) => IsCreate(spawned[j]))
       => /\ err = Nil
          /\ complete
          /\ Len(StepCommands) = 23
          /\ \A j \in 1..Len(spawned) : ~spawned[j].ok => j < Len(spawned)

C3_Witness ==
    /\ pc = "done" /\ err = Nil /\ complete /\ ~dryRun
    /\ Cardinality({j \in 1..Len(spawned) : IsCreate(spawned[j]) /\ ~spawned[j].ok}) = 4
    /\ Len(StepCommands) = 23

-----------------------------------------------------------------------------
(* C4 *)

\* The errors a step function of setup can return.
StepErrors ==
    {ExitError}
    \cup {"failed to set secret " \o n \o ": " \o ExitError :
             n \in {"GCP_SERVICE_ACCOUNT", "GCP_WORKLOAD_IDENTITY_PROVIDER"}}
    \cup {"failed to set variable " \o n \o ": " \o ExitError :
             n \in {"CLOUD_RUN_SERVICE", "CLOUD_RUN_REGION", "ARTIFACT_REGISTRY_URL"}}

C4_Stopped ==
    /\ err # Nil => pc = "done"
    /\ (pc = "done" /\ err # Nil /\ started # << >>)
       => LET i == Len(started)
          IN  /\ \E e \in StepErrors : err = StepNames[i] \o " failed: " \o e
              /\ stepIdx = i - 1
              /\ ~complete
              /\ \A j \in 1..Len(spawned) : spawned[j].step <= i
              /\ ~dryRun => /\ CommandsOf(i) # << >>
                            /\ ~spawned[Len(spawned)].ok
                            /\ spawned[Len(spawned)].step = i

\* Nothing a run executed is undone: no process that was run is a delete, and
\* the record of processes only grows.
C4_NoRollback ==
    /\ IsPrefix(spawned, spawned')
    /\ IsPrefix(printed, printed')
    /\ \A j \in 1..Len(spawned') : \A a \in Range(spawned'[j].args) : a \notin {"delete", "remove"}
    /\ pc = "done" => UNCHANGED <<inputs, cfg, pc, stepIdx, started, spawned, printed, complete, err>>

\* C4: when a step returns an error the run stops there: no command of a later
\* step is executed, no command already executed is undone, and runSetup
\* returns an error that names the failed step.
C4_StepErrorStopsRun == [](C4_Stopped) /\ [][C4_NoRollback]_vars

C4_Witness ==
    /\ pc = "done"
    /\ err = "Setting up Workload Identity Federation failed: exit status 1"
    /\ Len(StepCommands) = 7 + 7 + 3

-----------------------------------------------------------------------------
(* C5 *)

Environments == {"development", "staging", "production", "preview"}

\* A process that creates deployment environment e of the repository: a
\* successful gh call, other than the auth check and the secret and variable
\* sets, that names e.
CreatesEnvironment(p, e) ==
    /\ p.name = "gh"
    /\ p.ok
    /\ p.args[1] \notin {"auth", "secret", "variable"}
    /\ \E a \in Range(p.args) :
          \/ a = e
          \/ a = "repos/" \o cfg.GitHubOrg \o "/" \o cfg.GitHubRepo \o "/environments/" \o e

\* C5 (as claimed): a non-dry-run setup that returns success has created the
\* four deployment environments development, staging, production and preview.
C5_EnvironmentsCreated ==
    (pc = "done" /\ err = Nil /\ ~dryRun)
       => \A e \in Environments : \E j \in 1..Len(spawned) : CreatesEnvironment(spawned[j], e)

-----------------------------------------------------------------------------
(* C6 *)

\* The required variables that resolve to the empty string, in RequiredVars order.
MissingVars == SelectSeq(RequiredVars, LAMBDA k : GetString(k) = "")

RECURSIVE BulletList(_)
BulletList(names) ==
    IF names = << >> THEN "" ELSE "\n  - " \o Head(names) \o BulletList(Tail(names))

C6_Missing ==
    MissingVars # << >>
       => /\ pc \in {"ValidateConfig", "done"}
          /\ spawned = << >> /\ printed = << >> /\ started = << >>
          /\ stepIdx = 0 /\ ~complete
          /\ pc = "done" => err = "missing required variables:" \o BulletList(MissingVars)

C6_Valid ==
    (pc = "ValidateConfig" /\ MissingVars = << >>) => (pc' = "checkGcloud" /\ err' = Nil)

\* C6: if any of the nine required variables resolves to the empty string,
\* setup returns an error that lists exactly the missing variables, in
\* RequiredVars order, and executes no external command and no step; if none is
\* empty, ValidateConfig returns nil and the run goes on to the tool checks.
C6_ValidateConfig == [](C6_Missing) /\ [][C6_Valid]_vars

C6_Witness ==
    /\ pc = "done"
    /\ err = "missing required variables:\n  - GCP_PROJECT_NUMBER\n  - CLOUD_RUN_SERVICE"
    /\ flags["CLOUD_RUN_SERVICE"].changed

-----------------------------------------------------------------------------
(* C7 *)

\* The value setup uses for a key: the field of the loaded Config.
UsedValue(key) ==
    CASE key = "GCP_PROJECT_ID" -> cfg.ProjectID
      [] key = "GCP_PROJECT_NUMBER" -> cfg.ProjectNumber
      [] key = "GITHUB_ORGANIZATION" -> cfg.GitHubOrg
      [] key = "GITHUB_REPOSITORY" -> cfg.GitHubRepo
      [] key = "SERVICE_ACCOUNT_NAME" -> cfg.ServiceAccountName
      [] key = "ARTIFACT_REGISTRY_NAME" -> cfg.ArtifactRegistryName
      [] key = "ARTIFACT_REGISTRY_LOCATION" -> cfg.ArtifactRegistryLocation
      [] key = "CLOUD_RUN_SERVICE" -> cfg.CloudRunService
      [] key = "CLOUD_RUN_REGION" -> cfg.CloudRunRegion

FileOrDefault(key) == IF file[key].set THEN file[key].val ELSE ""

\* C7 (as claimed): the value used is the flag's value when the flag was given,
\* otherwise the environment variable's value when it is set, otherwise the
\* value from the file.
C7_FlagsEnvFile ==
    pc = "steps"
       => \A key \in Keys :
             UsedValue(key) = IF flags[key].changed THEN flags[key].val
                              ELSE IF environ[key].set THEN environ[key].val
                              ELSE FileOrDefault(key)

\* C7 (amended): the value used is the flag's value when the flag was given,
\* otherwise the environment variable's value when it is set to a non-empty
\* string, otherwise the value from the file.
C7_FlagsNonEmptyEnvFile ==
    pc = "steps"
       => \A key \in Keys :
             /\ flags[key].changed => UsedValue(key) = flags[key].val
             /\ (~flags[key].changed /\ environ[key].set /\ environ[key].val # "")
                   => UsedValue(key) = environ[key].val
             /\ (~flags[key].changed /\ ~(environ[key].set /\ environ[key].val # ""))
                   => UsedValue(key) = FileOrDefault(key)

C7_Witness ==
    /\ pc = "steps"
    /\ ~flags["ARTIFACT_REGISTRY_NAME"].changed
    /\ environ["ARTIFACT_REGISTRY_NAME"] = [set |-> TRUE, val |-> "docker-registry-env"]
    /\ file["ARTIFACT_REGISTRY_NAME"] = [set |-> TRUE, val |-> "docker-registry"]
    /\ cfg.ArtifactRegistryName = "docker-registry-env"

-----------------------------------------------------------------------------
(* C8 *)

\* The gh calls the claim names, from the resolved configuration.
ClaimedRepo == GetString("GITHUB_ORGANIZATION") \o "/" \o GetString("GITHUB_REPOSITORY")

ClaimedSecrets == {
    <<"GCP_SERVICE_ACCOUNT",
      GetString("SERVICE_ACCOUNT_NAME") \o "@" \o GetString("GCP_PROJECT_ID")
          \o ".iam.gserviceaccount.com">>,
    <<"GCP_WORKLOAD_IDENTITY_PROVIDER",
      "projects/" \o GetString("GCP_PROJECT_NUMBER")
          \o "/locations/global/workloadIdentityPools/github-pool/providers/github-provider">> }

ClaimedVariables == {
    <<"CLOUD_RUN_SERVICE", GetString("CLOUD_RUN_SERVICE")>>,
    <<"CLOUD_RUN_REGION", GetString("CLOUD_RUN_REGION")>>,
    <<"ARTIFACT_REGISTRY_URL",
      GetString("ARTIFACT_REGISTRY_LOCATION") \o "-docker.pkg.dev/"
          \o GetString("GCP_PROJECT_ID") \o "/" \o GetString("ARTIFACT_REGISTRY_NAME")>> }

GhSet(kind, nv) == <<kind, "set", nv[1], "--repo", ClaimedRepo, "--body", nv[2]>>

Calls(name, args) == {j \in 1..Len(spawned) : spawned[j].name = name /\ spawned[j].args = args}

\* C8: a non-dry-run setup that returns success has invoked `gh secret set`
\* exactly once for each of the two secrets and `gh variable set` exactly once
\* for each of the three variables, with the bodies and the repo the claim
\* gives, and all secrets before any variable; these are all the gh set calls.
C8_SecretsAndVariables ==
    (pc = "done" /\ err = Nil /\ ~dryRun)
       => /\ \A nv \in ClaimedSecrets : Cardinality(Calls("gh", GhSet("secret", nv))) = 1
          /\ \A nv \in ClaimedVariables : Cardinality(Calls("gh", GhSet("variable", nv))) = 1
          /\ Cardinality({j \in 1..Len(spawned) :
                             spawned[j].name = "gh" /\ spawned[j].args[2] = "set"}) = 5
          /\ \A j, k \in 1..Len(spawned) :
                (spawned[j].name = "gh" /\ spawned[k].name = "gh"
                   /\ spawned[j].args[1] = "secret" /\ spawned[k].args[1] = "variable") => j < k
          /\ \A j \in 1..Len(spawned) :
                (spawned[j].name = "gh" /\ spawned[j].args[2] = "set") => spawned[j].ok

C8_Witness ==
    /\ pc = "done" /\ err = Nil /\ ~dryRun
    /\ Calls("gh", <<"variable", "set", "ARTIFACT_REGISTRY_URL", "--repo", "my-org/my-repo",
                     "--body", "europe-west1-docker.pkg.dev/my-project/docker-registry">>) # {}
    /\ Calls("gh", <<"secret", "set", "GCP_SERVICE_ACCOUNT", "--repo", "my-org/my-repo",
                     "--body", "github-actions@my-project.iam.gserviceaccount.com">>) # {}

-----------------------------------------------------------------------------
(* C9 *)

ClaimedRoles == <<
    "roles/run.developer",
    "roles/artifactregistry.writer",
    "roles/secretmanager.secretAccessor",
    "roles/iam.serviceAccountUser",
    "roles/cloudbuild.builds.builder",
    "roles/logging.logWriter" >>

IsGrant(p, role) ==
    /\ p.name = "gcloud"
    /\ p.args = <<"projects", "add-iam-policy-binding", GetString("GCP_PROJECT_ID"),
                  "--member=serviceAccount:" \o GetString("SERVICE_ACCOUNT_NAME") \o "@"
                      \o GetString("GCP_PROJECT_ID") \o ".iam.gserviceaccount.com",
                  "--role=" \o role,
                  "--condition=None">>

\* C9: in the Creating Service Account step the six roles are granted in the
\* claimed order, each exactly once and only after the service-account create
\* was attempted; the step returns success only if all six grants succeeded, and
\* the first failing grant stops the remaining grants.
C9_RolesInOrder ==
    ~dryRun =>
       LET sa == CommandsOf(2)
       IN  /\ Len(sa) <= 1 + Len(ClaimedRoles)
           /\ Len(started) >= 2 => Len(sa) >= 2
           /\ sa # << >> => /\ IsCreate(sa[1])
                            /\ sa[1].args[4] = GetString("SERVICE_ACCOUNT_NAME")
           /\ \A i \in 2..Len(sa) : IsGrant(sa[i], ClaimedRoles[i - 1])
           /\ \A i \in 2..(Len(sa) - 1) : sa[i].ok
           /\ stepIdx >= 2 => Len(sa) = 7 /\ \A i \in 2..7 : sa[i].ok
           /\ (Len(sa) = 7 /\ \A i \in 2..7 : sa[i].ok) => stepIdx >= 2
           /\ \A j \in 1..Len(spawned) :
                 (\E role \in Range(ClaimedRoles) : IsGrant(spawned[j], role)) => spawned[j].step = 2

C9_Witness ==
    /\ ~dryRun /\ pc = "done" /\ stepIdx = 1
    /\ Len(CommandsOf(2)) = 4
    /\ ~CommandsOf(2)[1].ok
    /\ ~CommandsOf(2)[4].ok
    /\ IsGrant(CommandsOf(2)[4], "roles/secretmanager.secretAccessor")

-----------------------------------------------------------------------------
(* C10 *)

\* The number of commands in the list of each step of the command that runs:
\* for setup as claimed; for project create 1 project create, 6 API enables, 1
\* service-account create, 2 federation commands, 1 registry create; for
\* loadbalancer setup a describe and a create per service in the first two
\* steps, a describe, a create and a path rule per service for the URL map, a
\* describe and a create for the proxy and for the forwarding rule.
ListSizes ==
    IF command = "setup" THEN StepSizes
    ELSE IF command = "project" THEN <<1, Len(projectAPIs), 1, 2, 1>>
    ELSE LET n == Len(lbCfg.Services) IN <<2 * n, 2 * n, 2 + n, 2, 2>>

SameCommand(p, q) == p.name = q.name /\ p.args = q.args

\* No two services the user configured have the same name, so that no two
\* entries of a step's list are the same command line.
DistinctServiceNames ==
    \A i, j \in 1..Len(lbCfg.Services) :
       i # j => lbCfg.Services[i].Name # lbCfg.Services[j].Name

\* C10: in a run of setup, project create or loadbalancer setup no command is
\* retried: a step never spawns more processes than its list has commands, no
\* command line is spawned twice in a run (succeeded or failed) unless the user
\* gave two services the same name, and the steps of setup spawn at most 23
\* commands.
C10_NoRetry ==
    /\ \A k \in 1..5 : Len(CommandsOf(k)) <= ListSizes[k]
    /\ \A j \in 1..Len(spawned) : spawned[j].step \in 0..5
    /\ Len(CommandsOf(0)) <= 1
    /\ command = "setup" => Len(StepCommands) <= 23
    /\ DistinctServiceNames =>
          \A i, j \in 1..Len(spawned) : i < j => ~SameCommand(spawned[i], spawned[j])

C10_Witness ==
    /\ command = "setup" /\ complete
    /\ Len(StepCommands) = 23
    /\ \E j \in 1..Len(StepCommands) : ~StepCommands[j].ok

-----------------------------------------------------------------------------
(* C11 *)

\* The first outcome: "Setup Complete!" was printed, runSetup returned nil and
\* the process ended with status 0, nothing written to standard error.
SetupSucceeded ==
    /\ complete /\ err = Nil
    /\ exitStatus = 0 /\ stderr = << >>

\* The second outcome: runSetup returned an error, Execute wrote it to standard
\* error (the last write, after cobra's report of the same error and the usage
\* text) and the process ended with status 1; "Setup Complete!" was not printed.
SetupFailed ==
    /\ ~complete /\ err # Nil
    /\ exitStatus = 1
    /\ stderr = <<"Error: " \o err, UsageString("setup"), err>>

\* C11: a run of setup that has ended ended in exactly one of the two outcomes;
\* "Setup Complete!" is printed exactly when runSetup returns nil, and then
\* validation, both tool checks and all five steps returned nil.
C11_TwoOutcomes ==
    /\ exited => (SetupSucceeded \/ SetupFailed) /\ ~(SetupSucceeded /\ SetupFailed)
    /\ ~exited => stderr = << >>
    /\ complete <=> (pc = "done" /\ err = Nil)
    /\ complete => /\ ValidateConfig = Nil
                   /\ \A j \in 1..Len(CommandsOf(0)) : CommandsOf(0)[j].ok
                   /\ stepIdx = Len(steps)
                   /\ started = StepNames
    /\ (pc = "done" /\ stepIdx < Len(steps)) => err # Nil
    /\ (pc = "done" /\ stepIdx = Len(steps)) => complete

C11_Witness ==
    /\ exited /\ SetupFailed
    /\ ~dryRun /\ Len(started) = 5
    /\ Len(StepCommands) = 23

-----------------------------------------------------------------------------
(* C12 *)

\* The two files init creates.
Created == {WorkflowPath, EnvPath}

\* No step of init changes a workflow or .env.gcloud file that exists.
C12_Kept == \A p \in Created : fs[p].exists => fs'[p] = fs[p]

\* The step that finds its file existing ends the run with the error.
C12_Refused ==
    /\ (pc = "init:workflow" /\ fs[WorkflowPath].exists) =>
          (pc' = "done" /\ err' = "file already exists: " \o WorkflowPath /\ fs' = fs)
    /\ (pc = "init:env" /\ fs[EnvPath].exists) =>
          (pc' = "done" /\ err' = "file already exists: " \o EnvPath /\ fs' = fs)

\* A run of init that returned nil wrote both files itself.
C12_Written ==
    (pc = "done" /\ err = Nil) =>
       /\ fs[WorkflowPath] = File(DeployWorkflow, "rw")
       /\ fs[EnvPath] = File(EnvTemplate, "rw")

\* C12: init never overwrites an existing file: writeFileIfNotExists writes only
\* to a path with no file; an existing workflow or .env.gcloud keeps its content
\* and the call that finds it returns "file already exists: <path>", which ends
\* the run; a run that returns nil found neither file.
C12_NeverOverwrites == [](C12_Written) /\ [][C12_Kept /\ C12_Refused]_vars

C12_Witness ==
    /\ pc = "done"
    /\ err = "file already exists: " \o EnvPath
    /\ fs[EnvPath] = File("GCP_PROJECT_ID=old\n", "rw")
    /\ fs[WorkflowPath] = File(DeployWorkflow, "rw")
    /\ exited /\ exitStatus = 1

-----------------------------------------------------------------------------
(* C13 *)

\* The number of times sub occurs in s from index i on.
RECURSIVE OccurrencesFrom(_, _, _)
OccurrencesFrom(s, sub, i) ==
    IF i + Len(sub) - 1 > Len(s) THEN 0
    ELSE (IF SubSeq(s, i, i + Len(sub) - 1) = sub THEN 1 ELSE 0) + OccurrencesFrom(s, sub, i + 1)

\* A call on an existing .gitignore keeps its content as a prefix of the new
\* content, and changes nothing when the content holds the text .env.gcloud.
C13_AppendOnly ==
    fs[GitignorePath].exists =>
       /\ fs'[GitignorePath].exists
       /\ IsPrefix(fs[GitignorePath].data, fs'[GitignorePath].data)
       /\ contains(fs[GitignorePath].data, ".env.gcloud") => fs' = fs

\* C13 (as claimed): appendToGitignore is idempotent and append-only: after any
\* number of calls the .gitignore holds the entry at most once, a call on a file
\* that contains the text .env.gcloud changes nothing, and the previous content
\* of an existing .gitignore is a prefix of the new content.
C13_IdempotentAppendOnly ==
    /\ [](OccurrencesFrom(fs[GitignorePath].data, entry, 1) <= 1)
    /\ [][C13_AppendOnly]_vars

-----------------------------------------------------------------------------
(* C14 *)

\* A run of project create or of loadbalancer setup with --yes.
NonInteractive ==
    \/ command = "project" /\ projectNonInteractive
    \/ command = "loadbalancer" /\ lbNonInteractive

\* A dry run of project create or of loadbalancer setup.
StepsDryRun ==
    \/ command = "project" /\ projectDryRun
    \/ command = "loadbalancer" /\ lbDryRun

\* What a dry run returns when it ends before its first step with an error.
DryRunEarlyErrors ==
    { "gcloud CLI not found. Install it: https://cloud.google.com/sdk/docs/install",
      "GCP_PROJECT_ID is required" }

\* C14 (as claimed): in a dry run of project create or of loadbalancer setup
\* no process is spawned, no step returns an error, and the run ends only
\* with the completion banner.
C14_DryRunAlwaysReachesBanner ==
    StepsDryRun =>
       /\ spawned = << >>
       /\ pc # "panic"
       /\ pc = "done" => (complete /\ err = Nil)

\* C14: in a dry run of project create or of loadbalancer setup no process is
\* spawned, neither a create nor a describe; every step that started returned
\* nil, so once the first step has started the run ends only with the
\* completion banner, a nil error and exit status 0. A dry run that ends
\* without the banner ended before its first step: gcloud was not found,
\* GCP_PROJECT_ID was empty (exit status 1), or the user, asked without --yes,
\* declined the confirmation (nil error, exit status 0).
C14_StepsDryRunSpawnNothing ==
    StepsDryRun =>
       /\ spawned = << >>
       /\ pc # "panic"
       /\ Len(started) \in {stepIdx, stepIdx + 1}
       /\ err # Nil => started = << >>
       /\ (pc = "done" /\ started # << >>) => (complete /\ err = Nil /\ stepIdx = 5)
       /\ exited => (started # << >> => exitStatus = 0)
       /\ (pc = "done" /\ ~complete) =>
             /\ started = << >>
             /\ \/ err \in DryRunEarlyErrors
                \/ err = Nil /\ ~NonInteractive /\ stdinReads > 0
       /\ (exited /\ ~complete) => exitStatus = (IF err = Nil THEN 0 ELSE 1)

C14_Witness ==
    /\ command = "loadbalancer" /\ lbDryRun
    /\ Len(lbCfg.Services) = 2
    /\ complete /\ exited /\ exitStatus = 0
    /\ Len(printed) = 7

-----------------------------------------------------------------------------
(* C15 *)

\* A command that grants a role.
IsRoleGrant(p) ==
    /\ p.name = "gcloud"
    /\ \E i \in 1..Len(p.args) :
          p.args[i] \in {"add-iam-policy-binding", "set-iam-policy"}

\* C15 (as claimed): once the Creating Service Account step of a non-dry run of
\* project create has returned nil, a role-grant command has been run.
C15_ProjectRolesGranted ==
    (command = "project" /\ ~projectDryRun /\ stepIdx >= 3) =>
       \E j \in 1..Len(spawned) : IsRoleGrant(spawned[j])

-----------------------------------------------------------------------------
(* C16 *)

\* The defaults of the prompts of project create with --yes.
ProjectDefaults ==
    [EmptyProjectConfig EXCEPT !.ProjectName = "my-project",
                               !.ProjectID = "my-project",
                               !.ServiceAccountName = "github-actions",
                               !.ArtifactRegistryName = "docker",
                               !.ArtifactRegistryLocation = "us-central1"]

\* The service interactiveLBConfig configures when every answer is left
\* empty: one service ("How many services? (default: 1)") with the defaults
\* of its four prompts.
DefaultServices ==
    << [Name |-> "service-1", Protocol |-> "HTTP", Port |-> 8080,
        Path |-> "/service-1/*", HealthCheck |-> "service-1-hc"] >>

\* With --yes, project create and loadbalancer setup read nothing from
\* standard input; every prompt that is called returned its default value;
\* the confirmation is not asked, so the run never ends cancelled (a nil
\* error without the completion banner) and the steps start as soon as the
\* configuration is there.
YesSkipsPrompts ==
    NonInteractive =>
       /\ stdinReads = 0
       /\ pc \in {"project:confirm", "project:steps"} => projectCfg = ProjectDefaults
       /\ pc \in {"lb:confirm", "lb:steps"} =>
             /\ lbCfg.LBName = "gcloud-lb"
             /\ lbCfg.Network = "default"
             /\ lbCfg.Subnet = ""
             /\ lbCfg.HealthCheckPort = 8080
             /\ ~lbCfg.UseSSL
       /\ (pc = "done" /\ err = Nil) => complete
       /\ (pc = "done" /\ started = << >>) => err \in DryRunEarlyErrors

\* C16 (as claimed): with --yes all defaults are accepted, the default of
\* one service among them: when the configuration of the load balancer is
\* there, it holds the service that the prompts give by default.
C16_YesAcceptsAllDefaults ==
    /\ YesSkipsPrompts
    /\ (NonInteractive /\ pc = "lb:confirm") => lbCfg.Services = DefaultServices

-----------------------------------------------------------------------------
(* C17 *)

LBStepNames == <<
    "Creating Health Checks",
    "Creating Backend Services",
    "Creating URL Map",
    "Creating HTTP(S) Proxy",
    "Creating Forwarding Rule" >>

\* C17: the steps of loadbalancer setup start in the order health checks,
\* backend services, URL map, HTTP(S) proxy, forwarding rule; a step starts
\* only when all before it returned nil; a step that returns an error ends the
\* run with "<step> failed: ..." and no later step starts or spawns a process.
C17_LBFixedOrder ==
    command = "loadbalancer" =>
       /\ IsPrefix(started, LBStepNames)
       /\ Len(started) \in {stepIdx, stepIdx + 1}
       /\ Len(started) = stepIdx + 1 =>
             /\ pc \in {"done", "panic"}
             /\ err # Nil
             /\ pc = "done" => HasPrefix(err, started[Len(started)] \o " failed: failed to create ")
       /\ (pc = "done" /\ err # Nil /\ started # << >>) => Len(started) = stepIdx + 1
       /\ \A j \in 1..Len(spawned) : spawned[j].step \in 1..Len(started)
       /\ \A i, j \in 1..Len(spawned) : i < j => spawned[i].step <= spawned[j].step
       /\ \A j \in 1..(Len(spawned) - 1) : spawned[j].args[3] = "create" => spawned[j].ok
       /\ complete => (started = LBStepNames /\ stepIdx = 5 /\ err = Nil)

C17_Witness ==
    /\ command = "loadbalancer" /\ ~lbDryRun
    /\ pc = "done" /\ exited /\ exitStatus = 1
    /\ err = "Creating HTTP(S) Proxy failed: failed to create HTTPS proxy: exit status 1"
    /\ stepIdx = 3
    /\ Len(lbCfg.Services) = 2

-----------------------------------------------------------------------------
(* C18 *)

Cmd(name, args) == [name |-> name, args |-> args]

\* The commands the steps of a non-dry run of setup execute when every command
\* succeeds, so and vo being the orders in which the run visits the secrets and
\* the variables.
ExecutedCommands(c, so, vo) ==
    LET repo == c.GitHubOrg \o "/" \o c.GitHubRepo
    IN  [i \in 1..Len(apis) |->
            Cmd("gcloud", <<"services", "enable", apis[i], "--project=" \o c.ProjectID>>)]
        \o << Cmd("gcloud", <<"iam", "service-accounts", "create", c.ServiceAccountName,
                              "--project=" \o c.ProjectID,
                              "--display-name=" \o c.ServiceAccountName \o " Service Account",
                              "--description=Service account for GitHub Actions CI/CD">>) >>
        \o [i \in 1..Len(roles) |->
               Cmd("gcloud", <<"projects", "add-iam-policy-binding", c.ProjectID,
                               "--member=serviceAccount:" \o c.ServiceAccountEmail,
                               "--role=" \o roles[i],
                               "--condition=None">>)]
        \o << Cmd("gcloud", <<"iam", "workload-identity-pools", "create", "github-pool",
                              "--project=" \o c.ProjectID,
                              "--location=global",
                              "--display-name=GitHub Actions Pool">>),
              Cmd("gcloud", <<"iam", "workload-identity-pools", "providers", "create-oidc",
                              "github-provider",
                              "--project=" \o c.ProjectID,
                              "--location=global",
                              "--workload-identity-pool=github-pool",
                              "--display-name=GitHub Provider",
                              "--attribute-mapping=google.subject=assertion.sub,attribute.actor=assertion.actor,attribute.repository=assertion.repository",
                              "--issuer-uri=https://token.actions.githubusercontent.com">>),
              Cmd("gcloud", <<"iam", "service-accounts", "add-iam-policy-binding",
                              c.ServiceAccountEmail,
                              "--project=" \o c.ProjectID,
                              "--role=roles/iam.workloadIdentityUser",
                              "--member=principalSet://iam.googleapis.com/projects/"
                                  \o c.ProjectNumber
                                  \o "/locations/global/workloadIdentityPools/github-pool/attribute.repository/"
                                  \o c.GitHubOrg \o "/" \o c.GitHubRepo>>),
              Cmd("gcloud", <<"artifacts", "repositories", "create", c.ArtifactRegistryName,
                              "--project=" \o c.ProjectID,
                              "--location=" \o c.ArtifactRegistryLocation,
                              "--repository-format=docker",
                              "--description=Container registry for CI/CD">>) >>
        \o [i \in 1..Len(so) |->
               Cmd("gh", <<"secret", "set", so[i], "--repo", repo, "--body", secrets(c)[so[i]]>>)]
        \o [i \in 1..Len(vo) |->
               Cmd("gh", <<"variable", "set", vo[i], "--repo", repo, "--body", variables(c)[vo[i]]>>)]

\* A command as one line: the program and its arguments, separated by spaces.
CommandLine(p) == p.name \o " " \o Join(p.args, " ")

\* The same without a "--body <value>" at the end of a gh command.
CommandLineWithoutBody(p) ==
    IF p.name = "gh" /\ Len(p.args) >= 2 /\ p.args[Len(p.args) - 1] = "--body"
    THEN p.name \o " " \o Join(SubSeq(p.args, 1, Len(p.args) - 2), " ")
    ELSE CommandLine(p)

\* The command a dry-run line shows: the text after "[dry-run] ".
RECURSIVE Shown(_)
Shown(line) ==
    IF HasPrefix(line, "[dry-run] ") THEN SubSeq(line, Len("[dry-run] ") + 1, Len(line))
    ELSE IF HasPrefix(line, " ") THEN Shown(SubSeq(line, 2, Len(line)))
    ELSE line

Orders == Perms(DOMAIN secrets(cfg)) \X Perms(DOMAIN variables(cfg))

\* A completed non-dry run in which every step command succeeded executed
\* ExecutedCommands, for the orders it chose.
C18_Executed ==
    (complete /\ ~dryRun /\ \A j \in 1..Len(StepCommands) : StepCommands[j].ok) =>
       \E o \in Orders :
          [j \in 1..Len(StepCommands) |-> Cmd(StepCommands[j].name, StepCommands[j].args)]
             = ExecutedCommands(cfg, o[1], o[2])

\* C18 (as claimed): the commands a completed dry run of setup printed are,
\* program, arguments and order, the commands a non-dry run with the same
\* configuration executes when every command succeeds.
C18_FaithfulPreview ==
    /\ C18_Executed
    /\ (complete /\ dryRun) =>
          \E o \in Orders :
             [j \in 1..Len(printed) |-> Shown(printed[j])]
                = [j \in 1..23 |-> CommandLine(ExecutedCommands(cfg, o[1], o[2])[j])]

\* C18 (amended): the same, except that the line of a gh command ends after
\* --repo <org>/<repo>, without --body and the value; the order within the
\* secrets and within the variables is the one the dry run chose.
C18_PreviewWithoutBodies ==
    /\ C18_Executed
    /\ dryRun => StepCommands = << >>
    /\ (complete /\ dryRun) =>
          \E o \in Orders :
             [j \in 1..Len(printed) |-> Shown(printed[j])]
                = [j \in 1..23 |-> CommandLineWithoutBody(ExecutedCommands(cfg, o[1], o[2])[j])]

C18_Witness ==
    /\ complete /\ dryRun
    /\ Len(printed) = 23
    /\ printed[23] = "    [dry-run] gh variable set CLOUD_RUN_REGION --repo my-org/my-repo"

-----------------------------------------------------------------------------
(* C19 *)

PreCheckErrors ==
    { "gcloud CLI not found. Install it: https://cloud.google.com/sdk/docs/install",
      "GitHub CLI (gh) not found. Install it: https://cli.github.com/",
      "GitHub CLI not authenticated. Run: gh auth login" }

\* The pre-checks come in the order validation, gcloud, gh; each is entered
\* from the one before only, and the steps from the last only, without error.
C19_Order ==
    /\ pc' = "checkGcloud" /\ pc # pc' => pc = "ValidateConfig" /\ err' = Nil
    /\ pc' = "checkGH"     /\ pc # pc' => pc = "checkGcloud" /\ err' = Nil
    /\ pc' = "loadConfig"  /\ pc # pc' => pc = "checkGH" /\ err' = Nil
    /\ pc' = "steps"       /\ pc # pc' => pc = "loadConfig" /\ err' = Nil
    /\ started' # started => pc = "steps"

\* Once the steps are reached every pre-check has passed; after a failed
\* pre-check no step has begun, no step command was run and the error is returned.
C19_Passed ==
    /\ (pc = "steps" \/ started # << >>) =>
          /\ ValidateConfig = Nil
          /\ Len(spawned) >= 1
          /\ spawned[1] = [name |-> "gh", args |-> <<"auth", "status">>, ok |-> TRUE, step |-> 0]
    /\ (err \in PreCheckErrors \/ ValidateConfig # Nil) =>
          /\ started = << >>
          /\ StepCommands = << >>
          /\ printed = << >>
          /\ ~complete
    /\ err \in PreCheckErrors => ValidateConfig = Nil
    /\ (pc = "done" /\ started = << >>) => err \in PreCheckErrors \/ err = ValidateConfig

\* C19: setup checks the configuration, then gcloud, then gh (presence and
\* authentication) and runs the first step only after all three passed; when
\* gcloud or gh is missing or gh is not authenticated, no step command is
\* executed and an error is returned.
C19_PreChecksBeforeSteps == [](C19_Passed) /\ [][C19_Order]_vars

C19_Witness ==
    /\ pc = "done"
    /\ err = "GitHub CLI not authenticated. Run: gh auth login"
    /\ spawned = << [name |-> "gh", args |-> <<"auth", "status">>, ok |-> FALSE, step |-> 0] >>
    /\ started = << >>

-----------------------------------------------------------------------------
(* C20 *)

ScriptPaths == [i \in 1..Len(setupAllScripts) |-> setupAllScripts[i].path]

\* The scripts started so far are the first ones of the list, in its order;
\* every one but the last started exited with status 0; after a failure the
\* run has ended with a status other than 0 and without "Setup Complete!";
\* with a required variable missing no script has started.
C20_InOrder ==
    /\ Len(started) <= Len(ScriptPaths)
    /\ started = SubSeq(ScriptPaths, 1, Len(started))
    /\ Len(spawned) = Len(started)
    /\ \A i \in 1..Len(spawned) :
          /\ spawned[i].name = started[i]
          /\ i < Len(spawned) => spawned[i].ok
          /\ ~spawned[i].ok =>
                /\ exited /\ exitStatus # 0
                /\ ~complete
                /\ \A j \in 1..Len(printed) : printed[j] # "Setup Complete!"
    /\ (\E j \in 1..Len(printed) : printed[j] = "Setup Complete!") =>
          /\ started = ScriptPaths
          /\ \A i \in 1..Len(spawned) : spawned[i].ok
    /\ (pc # "setup-all:source" /\ require_vars(environ, SetupAllVars) # << >>) =>
          /\ started = << >>
          /\ pc \in {"setup-all:require_vars", "done"}
          /\ pc = "done" => exited /\ exitStatus = 1

\* A run that has ended starts nothing more.
C20_Ended == exited => started' = started /\ printed' = printed /\ exited'

\* C20: setup-all.sh runs its five step scripts in the order 01-enable-apis,
\* 02-create-service-account, 03-iam-setup, 04-artifact-registry-setup,
\* 06-github-setup, each only after the previous one exited with status 0; the
\* first script that exits non-zero ends the run with a non-zero status before
\* any later script starts and before "Setup Complete!" is printed; nothing
\* runs when one of the four required variables is unset.
C20_StepScriptsInOrder == [](C20_InOrder) /\ [][C20_Ended]_vars

C20_Witness ==
    /\ exited /\ exitStatus = 127
    /\ Len(started) = 3
    /\ started[3] = ScriptDir \o "/gcloud/03-iam-setup.sh"
    /\ spawned[1].ok /\ spawned[2].ok /\ ~spawned[3].ok

C20_WitnessUnset ==
    /\ exited /\ exitStatus = 1
    /\ ~environ["GITHUB_REPOSITORY"].set
    /\ started = << >>

-----------------------------------------------------------------------------
(* C21 *)

NonCreate(cmds) == SelectSeq(cmds, LAMBDA p : ~IsCreate(p))

\* The run is over, was no dry run, began its steps, and of the step commands
\* it executed the creates failed and all others succeeded.
RerunEnded ==
    /\ pc = "done" /\ ~dryRun /\ started # << >>
    /\ \A j \in 1..Len(StepCommands) : StepCommands[j].ok <=> ~IsCreate(StepCommands[j])

\* C21: a non-dry run of setup in which the four create commands fail (the
\* resources exist) and every other command succeeds runs all five steps,
\* returns nil, and executes the non-create commands that a run with the same
\* configuration executes when every command succeeds (the secrets and the
\* variables in the order the run chose).
C21_Rerun ==
    /\ C18_Executed
    /\ RerunEnded =>
          /\ complete /\ err = Nil
          /\ started = StepNames
          /\ Cardinality({j \in 1..Len(StepCommands) : ~StepCommands[j].ok}) = 4
          /\ \E o \in Orders :
                NonCreate([j \in 1..Len(StepCommands) |->
                              Cmd(StepCommands[j].name, StepCommands[j].args)])
                   = NonCreate(ExecutedCommands(cfg, o[1], o[2]))
    /\ (RerunEnded /\ exited) => exitStatus = 0

C21_Witness ==
    /\ RerunEnded /\ exited
    /\ Len(NonCreate(StepCommands)) = 19
    /\ ~StepCommands[8].ok /\ ~StepCommands[15].ok /\ ~StepCommands[16].ok /\ ~StepCommands[18].ok

-----------------------------------------------------------------------------
(* C22 *)

\* C22 (as claimed): whenever loadbalancer setup, without --dry-run, has begun
\* the URL-map step, the configuration holds at least one backend service, and
\* the read of the first service for the default backend does not fail.
C22_ServicesNonEmpty ==
    (command = "loadbalancer" /\ ~lbDryRun /\ Len(started) >= 3) =>
       /\ started[3] = "Creating URL Map"
       /\ Len(lbCfg.Services) >= 1
       /\ pc # "panic"
       /\ err # IndexPanic

-----------------------------------------------------------------------------
(* C23 *)

\* The flags by which a command names another resource, with the resource's kind.
RefFlags == {
    <<"--health-checks=", "health-checks">>,
    <<"--default-service=", "backend-services">>,
    <<"--service=", "backend-services">>,
    <<"--url-map=", "url-maps">>,
    <<"--target-http-proxy=", "http-proxies">>,
    <<"--target-https-proxy=", "https-proxies">>,
    <<"--address=", "addresses">> }

RefKinds == {f[2] : f \in RefFlags}

\* The resources, as <<kind, name>>, that the arguments of p refer to.
References(p) ==
    {<<x[1][2], SubSeq(x[2], Len(x[1][1]) + 1, Len(x[2]))>> :
        x \in {y \in RefFlags \X Range(p.args) : HasPrefix(y[2], y[1][1])}}

\* p is a gcloud compute command that creates a resource or adds a path rule.
IsLBReferring(p) ==
    /\ p.name = "gcloud" /\ Len(p.args) >= 4
    /\ p.args[1] = "compute"
    /\ p.args[3] \in {"create", "add-path-rule"}

\* p found the resource existing (describe) or created it.
Provides(p, ref) ==
    /\ p.name = "gcloud" /\ Len(p.args) >= 4 /\ p.ok
    /\ p.args[1] = "compute"
    /\ p.args[2] = ref[1]
    /\ \/ p.args[3] = "describe" /\ p.args[4] = ref[2]
       \/ p.args[3] = "create" /\ p.args[2] # "health-checks" /\ p.args[4] = ref[2]
       \/ p.args[3] = "create" /\ p.args[2] = "health-checks" /\ Len(p.args) >= 5 /\ p.args[5] = ref[2]

\* Every resource of the given kinds that a command refers to was provided by
\* an earlier command of the run.
ReferencesProvided(kinds) ==
    \A j \in 1..Len(spawned) :
       IsLBReferring(spawned[j]) =>
          \A ref \in References(spawned[j]) :
             ref[1] \in kinds => \E k \in 1..(j - 1) : Provides(spawned[k], ref)

\* The forwarding rule targets the kind of proxy the run uses, on its port.
ProxyKindMatches ==
    \A j \in 1..Len(spawned) :
       (IsLBReferring(spawned[j]) /\ spawned[j].args[2] = "forwarding-rules") =>
          LET a == Range(spawned[j].args)
          IN  IF lbCfg.UseSSL
              THEN /\ \E x \in a : HasPrefix(x, "--target-https-proxy=")
                   /\ "--ports=443" \in a
              ELSE /\ \E x \in a : HasPrefix(x, "--target-http-proxy=")
                   /\ "--ports=80" \in a

\* C23 (as claimed): in a non-dry run of loadbalancer setup every resource a
\* create command names (health check, backends, URL map, target proxy, and
\* the address <lb-name>-ip) was created or found existing by an earlier
\* command of the run, and the forwarding rule's proxy kind and port match.
C23_ReferencesProvided ==
    (command = "loadbalancer" /\ ~lbDryRun) =>
       /\ ReferencesProvided(RefKinds)
       /\ ProxyKindMatches

\* The same for every kind but the address.
ReferencesButAddressProvided ==
    (command = "loadbalancer" /\ ~lbDryRun) =>
       /\ ReferencesProvided(RefKinds \ {"addresses"})
       /\ ProxyKindMatches

-----------------------------------------------------------------------------
(* C24 *)

\* A step function was called and has returned (or panicked).
StepReturned == started' # started

\* The caller's configuration of setup and of project create is the same
\* after a step as before it.
ValueConfigsUnchanged == StepReturned => cfg' = cfg /\ projectCfg' = projectCfg

\* So is the caller's configuration of loadbalancer setup, the HealthCheck
\* of every service included.
LBConfigUnchanged ==
    StepReturned =>
       /\ lbCfg' = lbCfg
       /\ \A i \in 1..Len(lbCfg.Services) :
             lbCfg'.Services[i].HealthCheck = lbCfg.Services[i].HealthCheck

\* C24 (as claimed): every step function of setup, project create and
\* loadbalancer setup leaves the caller's configuration unchanged, each
\* service's HealthCheck name included.
C24_ConfigUnchanged == [][ValueConfigsUnchanged /\ LBConfigUnchanged]_vars

\* The part that concerns setup and project create.
ValueConfigsKept == [][ValueConfigsUnchanged]_vars

-----------------------------------------------------------------------------
(* C25 *)

IsCompute(p, verb) ==
    p.name = "gcloud" /\ Len(p.args) >= 4 /\ p.args[1] = "compute" /\ p.args[3] = verb

\* The resource a describe or create command is about, as <<kind, name>>.
Resource(p) ==
    <<p.args[2],
      IF p.args[3] = "create" /\ p.args[2] = "health-checks" THEN p.args[5] ELSE p.args[4]>>

KindLabels ==
    [x \in {"health-checks", "backend-services", "url-maps", "http-proxies", "https-proxies",
            "forwarding-rules"} |->
       CASE x = "health-checks" -> "Health check"
         [] x = "backend-services" -> "Backend service"
         [] x = "url-maps" -> "URL map"
         [] x = "http-proxies" -> "HTTP proxy"
         [] x = "https-proxies" -> "HTTPS proxy"
         [] x = "forwarding-rules" -> "Forwarding rule"]

\* The line that reports the resource of p as existing.
ExistsReport(p) ==
    "  " \o CheckMark \o " " \o KindLabels[Resource(p)[1]] \o " '" \o Resource(p)[2]
         \o "' already exists"

\* Command j, a describe that succeeded: the resource is reported, the next
\* command is the describe of another resource, and no error came of it.
DescribedFound(j) ==
    /\ ExistsReport(spawned[j]) \in Range(printed)
    /\ j < Len(spawned) => IsCompute(spawned[j + 1], "describe")
    /\ j = Len(spawned) => err = Nil

\* Command j, a create: the command before it is the failed describe of the
\* same resource.
CreatedAfterDescribe(j) ==
    /\ j > 1
    /\ IsCompute(spawned[j - 1], "describe")
    /\ ~spawned[j - 1].ok
    /\ Resource(spawned[j - 1]) = Resource(spawned[j])

\* Command j, an add-path-rule: it follows the successful create of its URL
\* map, with only path rules in between.
PathRuleAfterCreate(j) ==
    \E k \in 1..(j - 1) :
       /\ IsCompute(spawned[k], "create") /\ spawned[k].ok
       /\ Resource(spawned[k]) = <<"url-maps", spawned[j].args[4]>>
       /\ \A m \in (k + 1)..(j - 1) : IsCompute(spawned[m], "add-path-rule")

\* The describes that failed without a create after them are those in missed.
DescribeDecides(missed) ==
    (command = "loadbalancer" /\ ~lbDryRun) =>
       \A j \in 1..Len(spawned) :
          /\ (IsCompute(spawned[j], "describe") /\ ~spawned[j].ok /\ j \notin missed) =>
                /\ j < Len(spawned)
                /\ IsCompute(spawned[j + 1], "create")
                /\ Resource(spawned[j + 1]) = Resource(spawned[j])
          /\ (IsCompute(spawned[j], "describe") /\ spawned[j].ok) => DescribedFound(j)
          /\ IsCompute(spawned[j], "create") => CreatedAfterDescribe(j)
          /\ IsCompute(spawned[j], "add-path-rule") => PathRuleAfterCreate(j)

\* C25 (as claimed): in a non-dry run of loadbalancer setup the create of a
\* resource is executed if and only if the describe before it failed; a
\* resource whose describe succeeded is reported as existing, nothing is
\* created or added for it, and the step goes on without error.
C25_CreateIffDescribeFailed == DescribeDecides({})

\* The same, but for a failed describe of the URL map of a configuration
\* without services, where the step panics instead of creating.
CreateIffDescribeFailedUnlessPanic ==
    DescribeDecides({j \in 1..Len(spawned) :
                       /\ j = Len(spawned)
                       /\ err = IndexPanic
                       /\ Len(lbCfg.Services) = 0
                       /\ spawned[j].args[2] = "url-maps"})

====
